---- MODULE Spec2Model ----
(***************************************************************************)
(* Model of the CSV -> field mapping -> deck creation front end of the     *)
(* Japanese Anki deck generator (React components FieldMapperComponent,    *)
(* FieldMappingPage, AppContent, services/api) and of the pipeline stages  *)
(* its back end provides.                                                  *)
(***************************************************************************)
EXTENDS Integers, Sequences, FiniteSets, TLC

VARIABLES
    route,              \* current react-router path
    sessionId,          \* SessionContext.sessionId (0 is null)
    uploads,            \* sessions the server has handed out so far
    navTimer,           \* CsvUpload: the navigate('/mapping') timeout is pending
    csvFieldMapping,    \* sessionStorage item 'csvFieldMapping'
    variant,            \* which FieldMapperComponent source the page renders
    mstate,             \* FieldMapperComponent: unmounted/loading/ready/error/completed
    completeTimer,      \* FieldMapperComponent: pending onMappingComplete timeout
    edits,              \* select-box edits made so far
    deckRequest,        \* the last create-deck request sent to the server
    savedFor,           \* the session in which 'csvFieldMapping' was saved (0: none)
    afterCancel,        \* cancelled: the mapping step was cancelled and no deck
                        \* requested since; created: deckRequest is that request
    headers,            \* FieldMapperComponent state: CSV column headers
    suggestedMapping,   \* FieldMapperComponent state
    currentMapping,     \* FieldMapperComponent state
    validationErrors,   \* FieldMapperComponent state
    lastResult,         \* what the last validateMapping call returned and stored
    vcalls,             \* validateMapping calls made on the current mapping
    vfirst,             \* result of the first of those calls
    columns,            \* FieldMapInferencer: the header set with its sample content
    schedule,           \* FieldMapInferencer: the (field, step) attempts, in order
    ipos,               \* FieldMapInferencer: attempts made so far
    imapping,           \* FieldMapInferencer: the mapping built so far
    options,            \* EnrichmentOptions of the deck-creation call
    entries,            \* EnrichmentOrchestrator: the mapped rows, in row order
    rowState,           \* EnrichmentOrchestrator: pending / running / done, per row
    rowOutcome,         \* what the lookup and audio services answered, per row
    completed,          \* enriched rows in the order their lookups completed
    enriched,           \* the sequence handed to card assembly
    batchError,         \* an error escaped from the batch
    entry,              \* CardAssembler: the entry being assembled
    cards,              \* CardAssembler: the cards assemble returned
    bytes,              \* CsvParser: the raw input, one character per element
    declaredFormat,     \* CsvParser: the declaredFormat argument
    parsed,             \* CsvParser: what parse returned
    exportCards,        \* PackageExporter: the cards to export
    produced,           \* PackageExporter: media files actually produced
    package,            \* PackageExporter: what export returned
    deckId,             \* SessionContext.deckId (0 is null)
    cardCount,          \* SessionContext.cardCount
    isEnriched,         \* SessionContext.isEnriched
    createPc,           \* createDeck: idle / details / requesting
    attempts,           \* create-deck attempts made so far
    formFlags,          \* the option fields of the last create-deck request
    calls,              \* createDeck: the closure of each call (timer, step, words)
    pendingFrames,      \* requestAnimationFrame callbacks not yet run
    finalTimers,        \* pending 500 ms completion timeouts
    lastUpdate,         \* the last progress update onProgress received
    sawSuccess,         \* the current call's completion update was delivered
    createOutcome,      \* how the last finished attempt ended
    sessionRows,        \* row_count the server holds for the session
    applyPc,            \* handleApplyMapping: idle / validating / applying
    validateOutcome,    \* how the last /mapping/validate request ended
    appliedMapping,     \* the mapping the server holds for the session
    result,             \* JapaneseWordLookup: the lookup result on display
    selectedSenseIds,   \* JapaneseWordLookup: the checked senses, in checking order
    touched,            \* the user changed the selection since the lookup
    addRequest,         \* the last add attempt: the request sent, or the
                        \* result it was refused for (sent = FALSE)
    collectionId,       \* JapaneseWordLookup / localStorage 'wordCollectionId' (0: none)
    wordCount,          \* JapaneseWordLookup.wordCount
    store,              \* the server's collections: id -> entries
    lastOp,             \* per word, the last successful add or remove
    deckCreated,        \* AnkiControls.deckCreated
    createToast,        \* title of the last toast of AnkiControls.handleCreateDeck
    dlPc,               \* handleDownloadDeck: idle / waiting / checking /
                        \* downloading / returned
    dlDeck,             \* the deckId the running handleDownloadDeck closed over
    isDownloading,      \* AnkiControls.isDownloading
    dlRequests,         \* the deck requests sent so far: method, deck, ok
    dlTimers,           \* pending timeouts set by the download handlers
    dlToast,            \* title of the last toast of AnkiControls.handleDownloadDeck
    appToast,           \* title of the last toast of AppContent.handleDownloadDeck
    dlOutcome,          \* how the last AppContent.handleDownloadDeck ended
    downloads,          \* Download clicks made so far
    debounce,           \* FieldMapperComponent: the pending 500 ms validation timer
    inflight,           \* mappings whose /mapping/validate request is unanswered
    changes,            \* changes of currentMapping made so far
    mergedFor,          \* mappings whose server errors were merged into the
                        \* displayed errors since validateMapping last set them
    isPreviewOpen,      \* AnkiControls.isPreviewOpen
    cardSamples,        \* AnkiControls.cardSamples
    isLoadingPreview,   \* AnkiControls.isLoadingPreview
    previewError,       \* AnkiControls.previewError ("none" is null)
    currentCardIndex,   \* CardPreviewModal.currentCardIndex
    showFront,          \* CardPreviewModal.showFront
    openEffect,         \* CardPreviewModal: the [isOpen] effect has yet to run
    previews            \* preview requests made so far

mapperVars == <<headers, suggestedMapping, currentMapping, validationErrors>>
validateVars == <<lastResult, vcalls, vfirst>>

flowVars == <<route, sessionId, uploads, navTimer, csvFieldMapping, savedFor, afterCancel, variant,
              mstate, completeTimer, edits, deckRequest>>

inferVars == <<columns, schedule, ipos, imapping>>
enrichVars == <<entries, rowState, rowOutcome, completed, enriched, batchError>>
assembleVars == <<entry, cards>>
parseVars == <<bytes, declaredFormat, parsed>>
pipelineVars == <<options, inferVars, enrichVars, assembleVars, parseVars>>

exportVars == <<exportCards, produced, package>>
createVars == <<deckId, cardCount, isEnriched, createPc, attempts, formFlags,
                calls, pendingFrames, finalTimers, lastUpdate, sawSuccess,
                createOutcome, sessionRows, deckCreated, createToast>>
applyVars == <<applyPc, validateOutcome, appliedMapping>>
lookupVars == <<result, selectedSenseIds, touched, addRequest, collectionId,
                wordCount, store, lastOp>>
downloadVars == <<dlPc, dlDeck, isDownloading, dlRequests, dlTimers, dlToast,
                  appToast, dlOutcome, downloads>>
backgroundVars == <<debounce, inflight, changes, mergedFor>>
previewVars == <<isPreviewOpen, cardSamples, isLoadingPreview, previewError,
                 currentCardIndex, showFront, openEffect, previews>>
pageVars == <<downloadVars, backgroundVars, previewVars>>
sideVars == <<exportVars, createVars, applyVars, lookupVars, pageVars>>

vars == <<flowVars, mapperVars, validateVars, pipelineVars, sideVars>>

-----------------------------------------------------------------------------
(* Values of the pipeline's state while no pipeline stage is running.       *)

\* EnrichmentOptions with every recognized flag off
NoOptions ==
    [enrichCards |-> FALSE, includeAudio |-> FALSE, includeExamples |-> FALSE,
     includeExampleAudio |-> FALSE, useCore2000 |-> FALSE]

\* a VocabularyEntry with nothing in it; "" is an unset optional string
NoEntry ==
    [japanese |-> "", english |-> "", reading |-> "", examples |-> << >>,
     tags |-> {}, audioRef |-> ""]

\* an optional sequence that is not there
NoSequence == [set |-> FALSE, value |-> << >>]

NotParsed == [status |-> "none", headers |-> << >>, rows |-> << >>]

InferIdle ==
    /\ columns = << >>
    /\ schedule = << >>
    /\ ipos = 0
    /\ imapping = << >>

EnrichIdle ==
    /\ entries = << >>
    /\ rowState = << >>
    /\ rowOutcome = << >>
    /\ completed = << >>
    /\ enriched = NoSequence
    /\ batchError = FALSE

AssembleIdle ==
    /\ entry = NoEntry
    /\ cards = NoSequence

ParseIdle ==
    /\ bytes = << >>
    /\ declaredFormat = "none"
    /\ parsed = NotParsed

NotExported == [status |-> "none", notes |-> << >>, media |-> {}]

ExportIdle ==
    /\ exportCards = << >>
    /\ produced = {}
    /\ package = NotExported

\* a progress update; processed is kept as the range [lo, hi] it lies in
NoUpdate ==
    [processed |-> [lo |-> 0, hi |-> 0], total |-> 0,
     status |-> [text |-> "", n |-> 0]]

\* no create-deck call made and no deck created
CreateIdle ==
    /\ deckId = 0
    /\ cardCount = 0
    /\ isEnriched = FALSE
    /\ createPc = "idle"
    /\ attempts = 0
    /\ formFlags = << >>
    /\ calls = << >>
    /\ pendingFrames = << >>
    /\ finalTimers = << >>
    /\ lastUpdate = NoUpdate
    /\ sawSuccess = FALSE
    /\ createOutcome = "none"
    /\ sessionRows = 0
    /\ deckCreated = FALSE
    /\ createToast = "none"

\* handleApplyMapping not running, no mapping applied on the server
ApplyIdle ==
    /\ applyPc = "idle"
    /\ validateOutcome = "none"
    /\ appliedMapping = [set |-> FALSE, value |-> << >>]

\* words the lookup page is used with
LookupWords == {"neko", "kakeru", "kasa"}

\* no lookup made
NoLookup ==
    [word |-> "", meanings |-> << >>, parts_of_speech |-> << >>, senses |-> << >>]

\* no add attempted
NoAddRequest ==
    [sent |-> FALSE, word |-> "", meanings |-> << >>, parts_of_speech |-> << >>,
     selected_sense_ids |-> [set |-> FALSE, value |-> << >>], collection_id |-> 0,
     of |-> NoLookup, touched |-> FALSE]

\* a word never added or removed
NoOp == [kind |-> "none", meanings |-> << >>, parts_of_speech |-> << >>]

\* the lookup page before its first lookup, with no collection
LookupIdle ==
    /\ result = NoLookup
    /\ selectedSenseIds = << >>
    /\ touched = FALSE
    /\ addRequest = NoAddRequest
    /\ collectionId = 0
    /\ wordCount = 0
    /\ store = << >>
    /\ lastOp = [w \in LookupWords |-> NoOp]

\* the stages and pages outside the pipeline proper, at rest
\* no download started
DownloadIdle ==
    /\ dlPc = "idle"
    /\ dlDeck = 0
    /\ isDownloading = FALSE
    /\ dlRequests = << >>
    /\ dlTimers = {}
    /\ dlToast = "none"
    /\ appToast = "none"
    /\ dlOutcome = "none"
    /\ downloads = 0

\* no background validation scheduled or sent
BackgroundIdle ==
    /\ debounce = [set |-> FALSE, value |-> << >>]
    /\ inflight = << >>
    /\ changes = 0
    /\ mergedFor = {}

\* useState initial values of the preview state and of CardPreviewModal
PreviewIdle ==
    /\ isPreviewOpen = FALSE
    /\ cardSamples = << >>
    /\ isLoadingPreview = FALSE
    /\ previewError = "none"
    /\ currentCardIndex = 0
    /\ showFront = TRUE
    /\ openEffect = FALSE
    /\ previews = 0

PagesIdle == DownloadIdle /\ BackgroundIdle /\ PreviewIdle

SideIdle == ExportIdle /\ CreateIdle /\ ApplyIdle /\ LookupIdle /\ PagesIdle

-----------------------------------------------------------------------------
(* Field mappings: a JavaScript Record<string,string>, kept as the sequence *)
(* of its <<key, value>> entries in insertion order.                        *)

\* ankiFields ids, in their declared order
AnkiFieldIds == <<"japanese", "english", "reading", "example", "tags">>

Fields == {AnkiFieldIds[i] : i \in 1..Len(AnkiFieldIds)}

\* the ankiFields table: id, label, required
ankiFields ==
    [f \in Fields |->
        CASE f = "japanese" -> [label |-> "Japanese Word", required |-> TRUE]
          [] f = "english"  -> [label |-> "English Meaning", required |-> FALSE]
          [] f = "reading"  -> [label |-> "Reading/Pronunciation", required |-> FALSE]
          [] f = "example"  -> [label |-> "Example Sentence", required |-> FALSE]
          [] f = "tags"     -> [label |-> "Tags", required |-> FALSE]]

\* value of a missing key
Undefined == "undefined"

\* JavaScript truthiness of a string-or-undefined value
Truthy(v) == v /= Undefined /\ v /= ""

Keys(m) == {m[i][1] : i \in 1..Len(m)}

\* mapping[field]
Lookup(m, f) ==
    IF f \in Keys(m)
    THEN m[CHOOSE i \in 1..Len(m) : m[i][1] = f][2]
    ELSE Undefined

\* {...mapping, [field]: value}
Put(m, f, c) ==
    IF f \in Keys(m)
    THEN [i \in 1..Len(m) |-> IF m[i][1] = f THEN <<f, c>> ELSE m[i]]
    ELSE Append(m, <<f, c>>)

\* Object.values(mapping)
ObjectValues(m) == [i \in 1..Len(m) |-> m[i][2]]

SeqRange(s) == {s[i] : i \in 1..Len(s)}

EmptyErrors == [k \in {} |-> ""]

\* `${field.label} is required`
RequiredMsg(f) ==
    CASE f = "japanese" -> "Japanese Word is required"
      [] f = "english"  -> "English Meaning is required"
      [] f = "reading"  -> "Reading/Pronunciation is required"
      [] f = "example"  -> "Example Sentence is required"
      [] f = "tags"     -> "Tags is required"

DuplicateMsg == "This column is used in multiple fields"

\* Object.values(mapping).filter(Boolean)
UsedHeaders(m) == SelectSeq(ObjectValues(m), Truthy)

\* the items of usedHeaders that were seen earlier in the list
Duplicates(used) ==
    {used[j] : j \in {i \in 1..Len(used) : \E k \in 1..(i - 1) : used[k] = used[i]}}

\* A defect variant: only the second and later users of a column are flagged.
validateMapping_LaterOnly(mapping) ==
    LET reqMissing == {f \in Fields :
                          ankiFields[f].required /\ ~Truthy(Lookup(mapping, f))}
        used == UsedHeaders(mapping)
        hasDup == Len(used) /= Cardinality(SeqRange(used))
        dupFields == {mapping[j][1] : j \in {i \in 1..Len(mapping) :
                          /\ Truthy(mapping[i][2])
                          /\ \E k \in 1..(i - 1) : mapping[k][2] = mapping[i][2]}}
    IN  [valid  |-> reqMissing = {} /\ ~hasDup,
         errors |-> [k \in reqMissing \cup dupFields |->
                        IF k \in dupFields THEN DuplicateMsg ELSE RequiredMsg(k)]]

\* A defect variant: the errors object outlives the call and accumulates.
validateMapping_Accumulate(mapping) ==
    LET reqMissing == {f \in Fields :
                          ankiFields[f].required /\ ~Truthy(Lookup(mapping, f))}
        used == UsedHeaders(mapping)
        hasDup == Len(used) /= Cardinality(SeqRange(used))
        dups == IF hasDup THEN Duplicates(used) ELSE {}
        dupFields == {mapping[j][1] : j \in {i \in 1..Len(mapping) :
                          mapping[i][2] \in dups}}
        fresh == [k \in reqMissing \cup dupFields |->
                     IF k \in dupFields THEN DuplicateMsg ELSE RequiredMsg(k)]
    IN  [valid  |-> reqMissing = {} /\ ~hasDup,
         errors |-> fresh @@ validationErrors]

\* validateMapping: the boolean it returns and the errors it hands to
\* setValidationErrors
validateMapping(mapping) ==
    LET reqMissing == {f \in Fields :
                          ankiFields[f].required /\ ~Truthy(Lookup(mapping, f))}
        used == UsedHeaders(mapping)
        hasDup == Len(used) /= Cardinality(SeqRange(used))
        dups == IF hasDup THEN Duplicates(used) ELSE {}
        dupFields == {mapping[j][1] : j \in {i \in 1..Len(mapping) :
                          mapping[i][2] \in dups}}
    IN  [valid  |-> reqMissing = {} /\ ~hasDup,
         errors |-> [k \in reqMissing \cup dupFields |->
                        IF k \in dupFields THEN DuplicateMsg ELSE RequiredMsg(k)]]

-----------------------------------------------------------------------------
(* Validation on its own: validateMapping applied to bounded mappings.      *)

\* largest number of entries of a mapping drawn as an input
MaxEntries == 2

\* the mapping of the Term/Definition/Pronunciation scenario
ScenarioMapping ==
    <<<<"japanese", "Term">>, <<"english", "Definition">>,
      <<"reading", "Pronunciation">>>>

HeaderSets == {<<"Term", "Definition", "Pronunciation">>, <<"ColA", "Term">>}

ColumnNames == UNION {SeqRange(h) : h \in HeaderSets}

\* what a select box can hold: a column, or "" for "Not mapped"
ColumnChoices == ColumnNames \cup {""}

RECURSIVE MappingsOfLen(_)
MappingsOfLen(n) ==
    IF n = 0 THEN {<< >>}
    ELSE {Append(m, <<f, c>>) :
            m \in MappingsOfLen(n - 1), f \in Fields, c \in ColumnChoices}

BoundedMappings ==
    {m \in UNION {MappingsOfLen(n) : n \in 0..MaxEntries} :
        Cardinality(Keys(m)) = Len(m)} \cup {ScenarioMapping}

NoResult == [valid |-> FALSE, errors |-> EmptyErrors, none |-> TRUE]

Result(r) == [valid |-> r.valid, errors |-> r.errors, none |-> FALSE]

\* errors a server validation answer can carry
ServerErrorSets ==
    {[k \in {"_general"} |-> "Failed to validate field mapping with server"],
     [k \in {"english"} |-> "Column not found in CSV"]}

\* an absent sessionStorage item or timer, and a present one
NoItem == [set |-> FALSE, value |-> << >>]
Item(m) == [set |-> TRUE, value |-> m]

NoRequest == [sent |-> FALSE, session_id |-> 0, field_mapping |-> NoItem]

\* the state of the rest of the application while nothing is uploaded
FlowIdle ==
    /\ route = "/"
    /\ sessionId = 0
    /\ uploads = 0
    /\ navTimer = FALSE
    /\ csvFieldMapping = NoItem
    /\ savedFor = 0
    /\ afterCancel = "none"
    /\ variant = 1
    /\ mstate = "unmounted"
    /\ completeTimer = NoItem
    /\ edits = 0
    /\ deckRequest = NoRequest

InitValidate ==
    /\ FlowIdle
    /\ SideIdle
    /\ options = NoOptions
    /\ InferIdle /\ EnrichIdle /\ AssembleIdle /\ ParseIdle
    /\ headers \in HeaderSets
    /\ currentMapping \in BoundedMappings
    /\ suggestedMapping = << >>
    /\ validationErrors = EmptyErrors
    /\ lastResult = NoResult
    /\ vcalls = 0
    /\ vfirst = NoResult

\* one call validateMapping(currentMapping)
ValidateCall ==
    /\ vcalls < 2
    /\ LET r == validateMapping(currentMapping) IN
        /\ validationErrors' = r.errors
        /\ lastResult' = Result(r)
        /\ vfirst' = IF vcalls = 0 THEN Result(r) ELSE vfirst
    /\ vcalls' = vcalls + 1
    /\ UNCHANGED <<flowVars, headers, suggestedMapping, currentMapping,
                   pipelineVars, sideVars>>

\* setValidationErrors(prev => ({...prev, ...validationResult.errors}))
MergeServerErrors ==
    /\ vcalls = 1
    /\ \E e \in ServerErrorSets : validationErrors' = e @@ validationErrors
    /\ UNCHANGED <<flowVars, headers, suggestedMapping, currentMapping, validateVars, pipelineVars,
                   sideVars>>

NextValidate == ValidateCall \/ MergeServerErrors

SpecValidate == InitValidate /\ [][NextValidate]_vars

\* no column is the mapped value of two fields
NoColumnTwice(m) ==
    \A i, j \in 1..Len(m) : (i /= j /\ Truthy(m[i][2])) => m[i][2] /= m[j][2]

\* the entry at position i shares its (non-empty) column with another entry
SharesColumn(m, i) ==
    Truthy(m[i][2]) /\ \E j \in 1..Len(m) : j /= i /\ m[j][2] = m[i][2]

HasError(errs, f, msg) == f \in DOMAIN errs /\ errs[f] = msg

\* C1: a validated mapping is reported valid exactly when japanese is mapped
\* to a non-empty column that is one of the headers and no column is the
\* mapped value of two fields.
C1_ValidIffWellMapped ==
    ~lastResult.none =>
        (lastResult.valid <=>
            /\ Truthy(Lookup(currentMapping, "japanese"))
            /\ Lookup(currentMapping, "japanese") \in SeqRange(headers)
            /\ NoColumnTwice(currentMapping))

\* C16: a validated mapping that leaves English Meaning unmapped is reported
\* invalid and carries an error on the english field.
C16_EnglishRequired ==
    (~lastResult.none /\ ~Truthy(Lookup(currentMapping, "english"))) =>
        /\ ~lastResult.valid
        /\ "english" \in DOMAIN lastResult.errors

-----------------------------------------------------------------------------
(* The upload -> field mapping -> deck creation flow of the front end.      *)

\* sessions (uploaded files) a behaviour may create
MaxSessions == 2

\* select-box edits a behaviour may make
MaxEdits == 1

\* the select boxes the edits are made in
EditFields == {"japanese", "english"}

Variants == {1, 2}

\* what /api/mapping/analyze-session can answer: the headers of the stored
\* CSV and the inferencer's suggestion for them
AnalysisResults ==
    {[headers |-> <<"Term", "Definition", "Pronunciation">>,
      suggested_mapping |-> ScenarioMapping],
     [headers |-> <<"Term", "Definition", "Pronunciation">>,
      suggested_mapping |-> <<<<"english", "Definition">>>>],
     [headers |-> <<"ColA", "Term">>,
      suggested_mapping |-> << >>]}

Init ==
    /\ SideIdle
    /\ options = NoOptions
    /\ InferIdle /\ EnrichIdle /\ AssembleIdle /\ ParseIdle
    /\ route = "/"
    /\ sessionId = 0
    /\ uploads = 0
    /\ navTimer = FALSE
    /\ csvFieldMapping = NoItem
    /\ savedFor = 0
    /\ afterCancel = "none"
    /\ variant \in Variants
    /\ mstate = "unmounted"
    /\ completeTimer = NoItem
    /\ edits = 0
    /\ deckRequest = NoRequest
    /\ headers = << >>
    /\ suggestedMapping = << >>
    /\ currentMapping = << >>
    /\ validationErrors = EmptyErrors
    /\ lastResult = NoResult
    /\ vcalls = 0
    /\ vfirst = NoResult

\* useState initial values of FieldMapperComponent
MapperReset ==
    /\ headers' = << >>
    /\ suggestedMapping' = << >>
    /\ currentMapping' = << >>
    /\ validationErrors' = EmptyErrors

\* FieldMappingPage mounts: without a session it navigates back to '/',
\* with one it renders the mapper, which starts analysing
EnterMapping(sid) ==
    /\ route' = IF sid = 0 THEN "/" ELSE "/mapping"
    /\ mstate' = IF sid = 0 THEN "unmounted" ELSE "loading"
    /\ MapperReset

\* leaving /mapping unmounts the mapper
LeaveMapping(to) ==
    /\ route' = to
    /\ mstate' = "unmounted"
    /\ MapperReset

\* CsvUpload.handleUpload, the upload succeeding
UploadCsv ==
    /\ route = "/"
    /\ ~navTimer
    /\ uploads < MaxSessions
    /\ uploads' = uploads + 1
    /\ sessionId' = uploads + 1
    /\ navTimer' = TRUE
    /\ afterCancel' = "none"
    /\ UNCHANGED <<route, csvFieldMapping, savedFor, variant, mstate, completeTimer, edits,
                   deckRequest, mapperVars, validateVars, pipelineVars,
                   sideVars>>

\* the timeout of handleUpload: store 'uploadedFile', navigate('/mapping')
UploadNavigate ==
    /\ navTimer
    /\ navTimer' = FALSE
    /\ EnterMapping(sessionId)
    /\ UNCHANGED <<sessionId, uploads, csvFieldMapping, savedFor, afterCancel, variant, completeTimer,
                   edits, deckRequest, validateVars, pipelineVars,
                   sideVars>>

\* the validation a change of currentMapping triggers (useEffect)
EffectErrors(v, m, prev) ==
    IF v = 1 /\ Len(m) = 0 THEN prev ELSE validateMapping(m).errors

\* analyzeCSV: the analyze-session request answers
AnalyzeSucceeds ==
    /\ mstate = "loading"
    /\ \E a \in AnalysisResults :
        /\ headers' = a.headers
        /\ suggestedMapping' = a.suggested_mapping
        /\ currentMapping' = a.suggested_mapping
        /\ validationErrors' =
               EffectErrors(variant, a.suggested_mapping, EmptyErrors)
    /\ mstate' = "ready"
    /\ UNCHANGED <<route, sessionId, uploads, navTimer, csvFieldMapping, savedFor, afterCancel, variant,
                   completeTimer, edits, deckRequest, validateVars, pipelineVars,
                   sideVars>>

\* analyzeCSV: the analyze-session request fails
AnalyzeFails ==
    /\ mstate = "loading"
    /\ mstate' = "error"
    /\ UNCHANGED <<route, sessionId, uploads, navTimer, csvFieldMapping, savedFor, afterCancel, variant,
                   completeTimer, edits, deckRequest, mapperVars, validateVars, pipelineVars,
                   sideVars>>

\* handleMappingChange, and the validation effect that follows it
HandleMappingChange ==
    /\ mstate = "ready"
    /\ edits < MaxEdits
    /\ \E f \in EditFields, c \in SeqRange(headers) \cup {""} :
        LET m == Put(currentMapping, f, c) IN
        /\ currentMapping' = m
        /\ validationErrors' = validateMapping(m).errors
    /\ edits' = edits + 1
    /\ UNCHANGED <<route, sessionId, uploads, navTimer, csvFieldMapping, savedFor, afterCancel, variant,
                   mstate, completeTimer, deckRequest, headers, suggestedMapping,
                   validateVars, pipelineVars,
                   sideVars>>

\* FieldMappingPage.handleMappingComplete
HandleMappingComplete(m) ==
    /\ csvFieldMapping' = Item(m)
    /\ savedFor' = sessionId
    /\ afterCancel' = "none"
    /\ LeaveMapping("/controls")

\* outcomes of the /mapping/validate request as validateFieldMapping returns
\* them: valid, invalid with errors, or the request failing (also invalid)
ServerValidations ==
    {[valid |-> TRUE, errors |-> EmptyErrors]}
    \cup {[valid |-> FALSE, errors |-> e] : e \in ServerErrorSets}
\* the "Apply Custom Mapping" button: isDisabled while errors are displayed
ApplyEnabled == mstate = "ready" /\ DOMAIN validationErrors = {}

\* handleApplyMapping of the first FieldMapperComponent: client validation,
\* server validation, applyFieldMapping, save, onMappingComplete
HandleApplyMapping1 ==
    /\ variant = 1
    /\ ApplyEnabled
    /\ LET r == validateMapping(currentMapping)
           stay(errs) ==
               /\ validationErrors' = errs
               /\ UNCHANGED <<route, mstate, csvFieldMapping, savedFor, afterCancel, headers,
                              suggestedMapping, currentMapping>>
       IN  \/ /\ ~r.valid
              /\ stay(r.errors)
           \/ /\ r.valid
              /\ \E sv \in ServerValidations, applied \in BOOLEAN :
                  IF ~sv.valid THEN stay(sv.errors)
                  ELSE IF applied THEN HandleMappingComplete(currentMapping)
                  ELSE stay(r.errors)
    /\ UNCHANGED <<sessionId, uploads, navTimer, variant, completeTimer, edits,
                   deckRequest, validateVars, pipelineVars,
                   sideVars>>

\* handleApplyMapping of the second FieldMapperComponent: client validation,
\* applyFieldMapping, save, then onMappingComplete from a timeout
HandleApplyMapping2 ==
    /\ variant = 2
    /\ ApplyEnabled
    /\ LET r == validateMapping(currentMapping) IN
       /\ validationErrors' = r.errors
       /\ \/ /\ ~r.valid
             /\ UNCHANGED <<mstate, csvFieldMapping, savedFor, afterCancel, completeTimer>>
          \/ /\ r.valid
             /\ \E applied \in BOOLEAN :
                 IF applied
                 THEN /\ csvFieldMapping' = Item(currentMapping)
                      /\ savedFor' = sessionId
                      /\ afterCancel' = "none"
                      /\ mstate' = "completed"
                      /\ completeTimer' = Item(currentMapping)
                 ELSE UNCHANGED <<mstate, csvFieldMapping, savedFor, afterCancel, completeTimer>>
    /\ UNCHANGED <<route, sessionId, uploads, navTimer, variant, edits,
                   deckRequest, headers, suggestedMapping, currentMapping,
                   validateVars, pipelineVars,
                   sideVars>>

\* the "Use Suggested Mapping" button
UseDefaultEnabled == mstate = "ready" /\ Len(suggestedMapping) > 0

\* handleUseDefault of the first FieldMapperComponent: the suggestion is
\* applied only if it passes validateMapping
HandleUseDefault1 ==
    /\ variant = 1
    /\ UseDefaultEnabled
    /\ LET r == validateMapping(suggestedMapping)
           stay ==
               /\ currentMapping' = suggestedMapping
               /\ validationErrors' = r.errors
               /\ UNCHANGED <<route, mstate, csvFieldMapping, savedFor, afterCancel, headers,
                              suggestedMapping>>
       IN  \/ /\ ~r.valid
              /\ stay
           \/ /\ r.valid
              /\ \E applied \in BOOLEAN :
                  IF applied THEN HandleMappingComplete(suggestedMapping)
                  ELSE stay
    /\ UNCHANGED <<sessionId, uploads, navTimer, variant, completeTimer, edits,
                   deckRequest, validateVars, pipelineVars,
                   sideVars>>

\* handleUseDefault of the second FieldMapperComponent: the suggestion is
\* saved as it is, then onMappingComplete from a timeout
HandleUseDefault2 ==
    /\ variant = 2
    /\ UseDefaultEnabled
    /\ currentMapping' = suggestedMapping
    /\ csvFieldMapping' = Item(suggestedMapping)
    /\ savedFor' = sessionId
    /\ afterCancel' = "none"
    /\ mstate' = "completed"
    /\ completeTimer' = Item(suggestedMapping)
    /\ validationErrors' = validateMapping(suggestedMapping).errors
    /\ UNCHANGED <<route, sessionId, uploads, navTimer, variant, edits,
                   deckRequest, headers, suggestedMapping, validateVars, pipelineVars,
                   sideVars>>

\* the timeout set by the second component: onMappingComplete(mapping)
CompleteTimerFires ==
    /\ completeTimer.set
    /\ completeTimer' = NoItem
    /\ HandleMappingComplete(completeTimer.value)
    /\ UNCHANGED <<sessionId, uploads, navTimer, variant, edits, deckRequest,
                   validateVars, pipelineVars,
                   sideVars>>

\* handleResetMapping (confirmed), and the validation effect that follows
HandleResetMapping ==
    /\ mstate = "ready"
    /\ Len(currentMapping) > 0
    /\ currentMapping' = << >>
    /\ validationErrors' = EffectErrors(variant, << >>, EmptyErrors)
    /\ UNCHANGED <<flowVars, headers, suggestedMapping, validateVars, pipelineVars,
                   sideVars>>

\* "Skip to Deck Options" of the second component:
\* onMappingComplete(currentMapping)
SkipToDeckOptions ==
    /\ variant = 2
    /\ mstate = "ready"
    /\ HandleMappingComplete(currentMapping)
    /\ UNCHANGED <<sessionId, uploads, navTimer, variant, completeTimer, edits,
                   deckRequest, validateVars, pipelineVars,
                   sideVars>>

\* FieldMappingPage.handleCancel, confirmed
HandleCancel ==
    /\ mstate \in {"ready", "error"}
    /\ LeaveMapping("/controls")
    /\ afterCancel' = "cancelled"
    /\ UNCHANGED <<sessionId, uploads, navTimer, csvFieldMapping, savedFor, variant,
                   completeTimer, edits, deckRequest, validateVars, pipelineVars,
                   sideVars>>

\* the "Back to Upload" button and breadcrumb of FieldMappingPage
BackToUpload ==
    /\ route = "/mapping"
    /\ LeaveMapping("/")
    /\ UNCHANGED <<sessionId, uploads, navTimer, csvFieldMapping, savedFor, afterCancel, variant,
                   completeTimer, edits, deckRequest, validateVars, pipelineVars,
                   sideVars>>

\* the browser's back button on the deck page returns to the mapping page
BrowserBack ==
    /\ route = "/controls"
    /\ EnterMapping(sessionId)
    /\ UNCHANGED <<sessionId, uploads, navTimer, csvFieldMapping, savedFor, afterCancel, variant,
                   completeTimer, edits, deckRequest, validateVars, pipelineVars,
                   sideVars>>

\* the page is reloaded: React state is lost, sessionStorage is kept
Reload ==
    /\ sessionId /= 0
    /\ sessionId' = 0
    /\ navTimer' = FALSE
    /\ completeTimer' = NoItem
    /\ route' = IF route = "/mapping" THEN "/" ELSE route
    /\ mstate' = "unmounted"
    /\ MapperReset
    /\ UNCHANGED <<uploads, csvFieldMapping, savedFor, afterCancel, variant, edits, deckRequest,
                   validateVars, pipelineVars,
                   sideVars>>

\* the field_mapping form field createDeck appends: the mapping it was
\* given, else a non-empty saved one
FormFieldMapping(fieldMapping, saved) ==
    IF fieldMapping.set THEN fieldMapping
    ELSE IF saved.set /\ Len(saved.value) > 0 THEN saved
    ELSE NoItem

\* AppContent.handleCreateDeck with a session: createDeck sends the request
CreateDeck ==
    /\ route = "/controls"
    /\ sessionId /= 0
    /\ deckRequest' =
           [sent |-> TRUE, session_id |-> sessionId,
            field_mapping |-> FormFieldMapping(csvFieldMapping, csvFieldMapping)]
    /\ afterCancel' = IF afterCancel = "cancelled" THEN "created" ELSE "none"
    /\ UNCHANGED <<route, sessionId, uploads, navTimer, csvFieldMapping, savedFor, variant,
                   mstate, completeTimer, edits, mapperVars, validateVars, pipelineVars,
                   sideVars>>

\* AppContent.handleCreateDeck without a session: toast and navigate('/')
CreateDeckNoSession ==
    /\ route = "/controls"
    /\ sessionId = 0
    /\ route' = "/"
    /\ UNCHANGED <<sessionId, uploads, navTimer, csvFieldMapping, savedFor, afterCancel, variant,
                   mstate, completeTimer, edits, deckRequest, mapperVars,
                   validateVars, pipelineVars,
                   sideVars>>

Next ==
    \/ UploadCsv
    \/ UploadNavigate
    \/ AnalyzeSucceeds
    \/ AnalyzeFails
    \/ HandleMappingChange
    \/ HandleApplyMapping1
    \/ HandleApplyMapping2
    \/ HandleUseDefault1
    \/ HandleUseDefault2
    \/ CompleteTimerFires
    \/ HandleResetMapping
    \/ SkipToDeckOptions
    \/ HandleCancel
    \/ BackToUpload
    \/ BrowserBack
    \/ Reload
    \/ CreateDeck
    \/ CreateDeckNoSession

Spec == Init /\ [][Next]_vars

\* a mapping that passes validation: japanese mapped, no column used twice
PassesValidation(m) ==
    Truthy(Lookup(m, "japanese")) /\ NoColumnTwice(m)

\* C4: every field mapping sent with a create-deck request maps japanese
\* and uses no column for two fields.
C4_SentMappingValidated ==
    (deckRequest.sent /\ deckRequest.field_mapping.set) =>
        PassesValidation(deckRequest.field_mapping.value)

\* C13: whenever a create-deck or preview request can be sent for a session,
\* the stored mapping it would carry was saved in that session, never for
\* an earlier upload.
C13_NoForeignMapping ==
    (route = "/controls" /\ sessionId /= 0
        /\ FormFieldMapping(csvFieldMapping, csvFieldMapping).set)
    => savedFor = sessionId

\* C18: the create-deck request that follows a confirmed cancel of the
\* mapping step carries no field mapping.
C18_CancelMeansDefault ==
    afterCancel = "created" => ~deckRequest.field_mapping.set

-----------------------------------------------------------------------------
(* FieldMapInferencer.infer(HeaderSet, sample rows): a suggestion for the   *)
(* mapping, built field by field from header names, sample content and      *)
(* column positions.                                                        *)

\* the front end while no page is in use
FrontEndIdle ==
    /\ FlowIdle
    /\ headers = << >>
    /\ suggestedMapping = << >>
    /\ currentMapping = << >>
    /\ validationErrors = EmptyErrors
    /\ lastResult = NoResult
    /\ vcalls = 0
    /\ vfirst = NoResult

frontEndVars == <<flowVars, mapperVars, validateVars>>

MaxColumns == 3

\* the synonym list of each canonical field
Synonyms ==
    [f \in Fields |->
        CASE f = "japanese" -> {"japanese", "word", "expression", "kanji",
                                "vocabulary", "front"}
          [] f = "english"  -> {"english", "meaning", "translation",
                                "definition", "back"}
          [] f = "reading"  -> {"reading", "pronunciation", "kana",
                                "hiragana", "yomigana"}
          [] f = "example"  -> {"example", "sentence", "usage", "context"}
          [] f = "tags"     -> {"tags", "tag", "category", "categories",
                                "group"}]

\* header names used as inputs
HeaderNames == {"Word Meaning", "Kana", "Backup", "Notes"}

\* header.toLowerCase().includes(synonym): the synonyms a header contains
HeaderContains(header) ==
    CASE header = "Word Meaning" -> {"word", "meaning"}
      [] header = "Kana"         -> {"kana"}
      [] header = "Backup"       -> {"back"}
      [] OTHER                   -> {}

\* what the sample values of a column are written in
Scripts == {"kanji", "kana", "latin"}

\* a column of the input: its header and the script of its sample values
ColumnPool ==
    {[name |-> "Word Meaning", script |-> "kanji"],
     [name |-> "Kana",         script |-> "kana"],
     [name |-> "Backup",       script |-> "latin"],
     [name |-> "Notes",        script |-> "kanji"],
     [name |-> "Notes",        script |-> "kana"],
     [name |-> "Notes",        script |-> "latin"]}

RECURSIVE ColumnsOfLen(_)
ColumnsOfLen(n) ==
    IF n = 0 THEN {<< >>}
    ELSE {Append(cs, c) : cs \in ColumnsOfLen(n - 1), c \in ColumnPool}

ColumnInputs == UNION {ColumnsOfLen(n) : n \in 1..MaxColumns}

Steps == <<"header", "content", "positional">>

\* the three steps tried field by field
FieldMajor ==
    [k \in 1..(Len(AnkiFieldIds) * Len(Steps)) |->
        <<AnkiFieldIds[((k - 1) \div Len(Steps)) + 1],
          Steps[((k - 1) % Len(Steps)) + 1]>>]

\* the three steps tried as three passes over the fields
PassMajor ==
    [k \in 1..(Len(AnkiFieldIds) * Len(Steps)) |->
        <<AnkiFieldIds[((k - 1) % Len(AnkiFieldIds)) + 1],
          Steps[((k - 1) \div Len(AnkiFieldIds)) + 1]>>]

Schedules == {FieldMajor, PassMajor}

\* position of a canonical field in the 2-5 column convention
Position(f) == CHOOSE i \in 1..Len(AnkiFieldIds) : AnkiFieldIds[i] = f

\* the indices i of s, in order, that satisfy Test
RECURSIVE IndicesFrom(_, _, _)
IndicesFrom(i, n, keep) ==
    IF i > n THEN << >>
    ELSE (IF i \in keep THEN <<i>> ELSE << >>) \o IndicesFrom(i + 1, n, keep)

\* columns (by index, in header order) that a step proposes for a field
Candidates(cols, f, step) ==
    CASE step = "header" ->
            IndicesFrom(1, Len(cols),
                {i \in 1..Len(cols) :
                    Synonyms[f] \cap HeaderContains(cols[i].name) /= {}})
      [] step = "content" ->
            IndicesFrom(1, Len(cols),
                {i \in 1..Len(cols) :
                    \/ f = "japanese" /\ cols[i].script \in {"kanji", "kana"}
                    \/ f = "reading" /\ cols[i].script = "kana"})
      [] step = "positional" ->
            IF Len(cols) \in 2..5 /\ Position(f) <= Len(cols)
            THEN <<Position(f)>>
            ELSE << >>

\* column names some field has claimed
Claimed(m) == {m[i][2] : i \in 1..Len(m)}

\* A defect variant: candidates are kept even when their column is taken.
Unclaimed_KeepAll(m, cols, cands) == cands

\* the candidates whose column no field has claimed yet
Unclaimed(m, cols, cands) ==
    SelectSeq(cands, LAMBDA i : cols[i].name \notin Claimed(m))

\* one attempt: a field that is still unmapped takes the first free candidate
Attempt(m, cols, f, step) ==
    IF f \in Keys(m) THEN m
    ELSE LET free == Unclaimed(m, cols, Candidates(cols, f, step))
         IN IF free = << >> THEN m
            ELSE Append(m, <<f, cols[free[1]].name>>)

InitInfer ==
    /\ FrontEndIdle
    /\ SideIdle
    /\ options = NoOptions
    /\ EnrichIdle /\ AssembleIdle /\ ParseIdle
    /\ columns \in ColumnInputs
    /\ schedule \in Schedules
    /\ ipos = 0
    /\ imapping = << >>

TryStep(step) ==
    /\ ipos < Len(schedule)
    /\ schedule[ipos + 1][2] = step
    /\ imapping' = Attempt(imapping, columns, schedule[ipos + 1][1], step)
    /\ ipos' = ipos + 1
    /\ UNCHANGED <<columns, schedule, frontEndVars, sideVars, options, enrichVars,
                   assembleVars, parseVars>>

TryHeaderName == TryStep("header")

TryContent == TryStep("content")

TryPositional == TryStep("positional")

NextInfer == TryHeaderName \/ TryContent \/ TryPositional

SpecInfer == InitInfer /\ [][NextInfer]_vars

\* C5: the mapping infer builds never has one column under two canonical
\* fields, and a field that claimed a column keeps it through the
\* header-name, content and positional steps.
C5_InferNoColumnTwice ==
    [][/\ NoColumnTwice(imapping')
       /\ SubSeq(imapping', 1, Len(imapping)) = imapping]_vars

\* infer has finished and two mapped fields were candidates for one column
C5_Witness ==
    /\ schedule /= << >>
    /\ ipos = Len(schedule)
    /\ \E f, g \in Keys(imapping) : \E i \in 1..Len(columns) :
          \E sf, sg \in SeqRange(Steps) :
            /\ f /= g
            /\ i \in SeqRange(Candidates(columns, f, sf))
            /\ i \in SeqRange(Candidates(columns, g, sg))

-----------------------------------------------------------------------------
(* EnrichmentOrchestrator: enrich(VocabularyEntry, EnrichmentOptions,       *)
(* lookupService) per row, rows enriched concurrently by a bounded pool and *)
(* re-sequenced to row order before card assembly.                          *)

MaxRows == 3

\* the pool enriches at most this many rows at a time
ConcurrencyLimit == 2

CsvExample ==
    [japaneseSentence |-> "csv-sentence", englishTranslation |-> "csv-translation",
     audioRef |-> ""]

\* rows as the mapping produced them: what the CSV supplied and what it left empty
EntryPool ==
    {[japanese |-> "neko", english |-> "csv-cat", reading |-> "",
      examples |-> << >>, tags |-> {"animal"}, audioRef |-> ""],
     [japanese |-> "inu", english |-> "csv-dog", reading |-> "csv-inu",
      examples |-> <<CsvExample>>, tags |-> {}, audioRef |-> ""],
     [japanese |-> "tori", english |-> "", reading |-> "",
      examples |-> << >>, tags |-> {}, audioRef |-> ""]}

RECURSIVE EntriesOfLen(_)
EntriesOfLen(n) ==
    IF n = 0 THEN {<< >>}
    ELSE {Append(es, e) : es \in EntriesOfLen(n - 1), e \in EntryPool}

EntryInputs == UNION {EntriesOfLen(n) : n \in 1..MaxRows}

Flags(enrichCards, includeAudio, includeExamples, includeExampleAudio) ==
    [enrichCards |-> enrichCards, includeAudio |-> includeAudio,
     includeExamples |-> includeExamples,
     includeExampleAudio |-> includeExampleAudio, useCore2000 |-> FALSE]

\* option records a deck-creation call is made with
EnrichOptionSets ==
    {Flags(FALSE, TRUE, FALSE, FALSE),
     Flags(TRUE, FALSE, TRUE, TRUE),
     Flags(TRUE, TRUE, TRUE, TRUE)}

\* lookupService.lookup(word): a failure, or a result that may lack any field
LookupFailed ==
    [ok |-> FALSE, reading |-> "", meanings |-> << >>, examples |-> << >>]

FullResult ==
    [ok |-> TRUE, reading |-> "lookup-reading",
     meanings |-> <<"lookup-meaning-1", "lookup-meaning-2">>,
     examples |-> <<[japaneseSentence |-> "lookup-sentence",
                     englishTranslation |-> "lookup-translation",
                     audioRef |-> ""]>>]

PartialResult ==
    [ok |-> TRUE, reading |-> "", meanings |-> <<"lookup-meaning-1">>,
     examples |-> << >>]

\* what the services answer for one row: the lookup, the headword audio, the
\* example request and the example audio
ServiceOutcome(lookup, audioOk, exampleOk, exampleAudioOk) ==
    [lookup |-> lookup, audioOk |-> audioOk, exampleOk |-> exampleOk,
     exampleAudioOk |-> exampleAudioOk]

AllFail == ServiceOutcome(LookupFailed, FALSE, FALSE, FALSE)

Outcomes ==
    {AllFail,
     ServiceOutcome(FullResult, TRUE, TRUE, TRUE),
     ServiceOutcome(PartialResult, FALSE, TRUE, FALSE),
     ServiceOutcome(LookupFailed, TRUE, TRUE, TRUE)}

\* a field of the entry the mapping left empty
NeedsLookup(e) == e.reading = "" \/ e.english = "" \/ e.examples = << >>

\* the example sentence requested when the entry still has none
GeneratedExample(opts, o) ==
    [japaneseSentence |-> "generated-sentence",
     englishTranslation |-> "generated-translation",
     audioRef |-> IF opts.includeExampleAudio /\ o.exampleAudioOk
                  THEN "example-audio" ELSE ""]

\* A defect variant: a failed lookup is raised to the caller.
enrich_Raising(e, opts, o) ==
    [raised |-> opts.enrichCards /\ NeedsLookup(e) /\ ~o.lookup.ok,
     unenriched |-> FALSE, entry |-> e]

\* A defect variant: whatever the lookup returns replaces the entry's fields.
enrich_Overwrite(e, opts, o) ==
    [raised |-> FALSE, unenriched |-> ~o.lookup.ok,
     entry |-> IF opts.enrichCards /\ o.lookup.ok
               THEN [e EXCEPT !.reading = o.lookup.reading,
                              !.english = IF o.lookup.meanings = << >> THEN ""
                                          ELSE o.lookup.meanings[1],
                              !.examples = o.lookup.examples]
               ELSE e]

\* enrich(entry, options, lookupService) with the services answering o
enrich(e, opts, o) ==
    IF ~opts.enrichCards
    THEN [raised |-> FALSE, unenriched |-> FALSE, entry |-> e]
    ELSE LET found == NeedsLookup(e) /\ o.lookup.ok
             reading == IF e.reading /= "" THEN e.reading
                        ELSE IF found THEN o.lookup.reading ELSE ""
             english == IF e.english /= "" THEN e.english
                        ELSE IF found /\ o.lookup.meanings /= << >>
                             THEN o.lookup.meanings[1] ELSE ""
             merged == IF e.examples /= << >> THEN e.examples
                       ELSE IF found THEN o.lookup.examples ELSE << >>
             examples == IF opts.includeExamples /\ merged = << >> /\ o.exampleOk
                         THEN <<GeneratedExample(opts, o)>>
                         ELSE merged
             audioRef == IF opts.includeAudio /\ o.audioOk
                         THEN "headword-audio" ELSE e.audioRef
         IN [raised |-> FALSE,
             unenriched |-> NeedsLookup(e) /\ ~o.lookup.ok,
             entry |-> [e EXCEPT !.reading = reading, !.english = english,
                                 !.examples = examples, !.audioRef = audioRef]]

\* A defect variant: results are handed on in the order they completed.
Resequence_CompletionOrder(done, n) ==
    [i \in 1..n |-> done[i].entry]

\* the completed rows put back in original row order
Resequence(done, n) ==
    [i \in 1..n |-> done[CHOOSE k \in 1..Len(done) : done[k].row = i].entry]

Running == {i \in 1..Len(entries) : rowState[i] = "running"}

Pending == {i \in 1..Len(entries) : rowState[i] = "pending"}

InitEnrich ==
    /\ FrontEndIdle
    /\ SideIdle
    /\ InferIdle /\ AssembleIdle /\ ParseIdle
    /\ options \in EnrichOptionSets
    /\ entries \in EntryInputs
    /\ rowState = [i \in 1..Len(entries) |-> "pending"]
    /\ rowOutcome = [i \in 1..Len(entries) |-> AllFail]
    /\ completed = << >>
    /\ enriched = NoSequence
    /\ batchError = FALSE

\* the pool takes the next row when it has a free slot
StartRow ==
    /\ ~batchError
    /\ Pending /= {}
    /\ Cardinality(Running) < ConcurrencyLimit
    /\ LET i == CHOOSE r \in Pending : \A q \in Pending : r <= q
       IN rowState' = [rowState EXCEPT ![i] = "running"]
    /\ UNCHANGED <<rowOutcome, completed, enriched, batchError, entries,
                   options, frontEndVars, sideVars, inferVars, assembleVars, parseVars>>

\* the service calls of a running row come back, in any order among the rows
CompleteRow ==
    /\ ~batchError
    /\ \E i \in Running : \E o \in Outcomes :
          LET r == enrich(entries[i], options, o) IN
            /\ rowOutcome' = [rowOutcome EXCEPT ![i] = o]
            /\ rowState' = [rowState EXCEPT ![i] = "done"]
            /\ IF r.raised
               THEN batchError' = TRUE /\ UNCHANGED completed
               ELSE /\ completed' = Append(completed,
                           [row |-> i, entry |-> r.entry,
                            unenriched |-> r.unenriched])
                    /\ UNCHANGED batchError
    /\ UNCHANGED <<enriched, entries, options, frontEndVars, sideVars, inferVars,
                   assembleVars, parseVars>>

\* every row is done: the enriched rows go to card assembly
HandToAssembly ==
    /\ ~batchError
    /\ ~enriched.set
    /\ \A i \in 1..Len(entries) : rowState[i] = "done"
    /\ enriched' = [set |-> TRUE, value |-> Resequence(completed, Len(entries))]
    /\ UNCHANGED <<rowState, rowOutcome, completed, batchError, entries,
                   options, frontEndVars, sideVars, inferVars, assembleVars, parseVars>>

NextEnrich == StartRow \/ CompleteRow \/ HandToAssembly

SpecEnrich == InitEnrich /\ [][NextEnrich]_vars

\* the input entry of the k-th completed row
InputOf(k) == entries[completed[k].row]

C7_OutputInRowOrder ==
    enriched.set =>
        /\ Len(enriched.value) = Len(entries)
        /\ \A i \in 1..Len(entries) :
              enriched.value[i] = enrich(entries[i], options, rowOutcome[i]).entry

\* rows completed out of row order under a full pool and were handed on
C7_Witness ==
    /\ enriched.set
    /\ Len(entries) > ConcurrencyLimit
    /\ completed[1].row > completed[2].row
    /\ enriched.value[1] /= enriched.value[2]
    /\ \E i, j \in 1..Len(entries) : rowOutcome[i] /= rowOutcome[j]

\* C8: reading, english and example keep the value the CSV supplied through
\* enrich; only fields the mapping left empty take a value from the lookup.
C8_CsvFieldsKept ==
    \A k \in 1..Len(completed) :
        /\ InputOf(k).reading /= "" =>
              completed[k].entry.reading = InputOf(k).reading
        /\ InputOf(k).english /= "" =>
              completed[k].entry.english = InputOf(k).english
        /\ InputOf(k).examples /= << >> =>
              completed[k].entry.examples = InputOf(k).examples

\* a lookup returned every field for a row whose CSV supplied english only
C8_Witness ==
    \E k \in 1..Len(completed) :
        /\ options.enrichCards
        /\ rowOutcome[completed[k].row].lookup = FullResult
        /\ InputOf(k).english /= ""
        /\ InputOf(k).reading = ""
        /\ completed[k].entry.english = InputOf(k).english
        /\ completed[k].entry.reading = FullResult.reading

-----------------------------------------------------------------------------
(* CardAssembler.assemble(VocabularyEntry, EnrichmentOptions): one card, or *)
(* a Recognition and a Production card in Core2000 mode.  A card's front    *)
(* and back are strings, kept as the sequence of the pieces of text they    *)
(* are concatenated from.                                                   *)

\* texts a CSV column or a lookup can put into an entry
JapaneseTexts == {"neko", "OK"}

EnglishTexts == {"", "cat", "OK", "cat\tkitty"}

AudioRefs == {"", "neko.mp3"}

TagSets == {{}, {"animal"}, {"noun animal", "n5"}}

ExampleLists ==
    {<< >>,
     <<[japaneseSentence |-> "neko desu", englishTranslation |-> "it is a cat",
        audioRef |-> "neko-desu.mp3"]>>}

AssembleEntries ==
    {[japanese |-> j, english |-> e, reading |-> IF x = << >> THEN "" ELSE "neko",
      examples |-> x, tags |-> t, audioRef |-> a] :
        j \in JapaneseTexts, e \in EnglishTexts, x \in ExampleLists,
        t \in TagSets, a \in AudioRefs}

AssembleOptionSets ==
    {[NoOptions EXCEPT !.useCore2000 = c, !.includeExampleAudio = x,
                       !.includeExamples = x, !.enrichCards = x] :
        c \in BOOLEAN, x \in BOOLEAN}

\* field escaping: a value holding the export format's separator or a quote
\* is written quoted
Escape(text) ==
    CASE text = "cat\tkitty" -> "\"cat\tkitty\""
      [] OTHER -> text

\* whitespace inside a tag is replaced by an underscore
NormalizeTag(tag) ==
    CASE tag = "noun animal" -> "noun_animal"
      [] OTHER -> tag

NormalizeTags(tags) == {NormalizeTag(t) : t \in tags}

\* the text of a field, nothing for an empty field
Piece(text) == IF text = "" THEN << >> ELSE <<Escape(text)>>

\* [sound:...] marker of an audio reference
AudioMarker(ref) == IF ref = "" THEN << >> ELSE <<"[sound:", ref, "]">>

ExamplePieces(e, opts) ==
    IF e.examples = << >> THEN << >>
    ELSE Piece(e.examples[1].japaneseSentence)
         \o Piece(e.examples[1].englishTranslation)
         \o (IF opts.includeExampleAudio
             THEN AudioMarker(e.examples[1].audioRef) ELSE << >>)

\* front: Japanese (+ audio); back: reading + meaning + example
RecognitionCard(e, opts) ==
    [template |-> "Recognition",
     front |-> <<Escape(e.japanese)>> \o AudioMarker(e.audioRef),
     back |-> Piece(e.reading) \o Piece(e.english) \o ExamplePieces(e, opts),
     tags |-> NormalizeTags(e.tags)]

\* front: English meaning; back: Japanese + reading + audio + example
ProductionCard(e, opts) ==
    [template |-> "Production",
     front |-> <<Escape(e.english)>>,
     back |-> <<Escape(e.japanese)>> \o Piece(e.reading)
              \o AudioMarker(e.audioRef) \o ExamplePieces(e, opts),
     tags |-> NormalizeTags(e.tags)]

\* A defect variant: Core2000 mode emits the Recognition card twice.
assemble_RecognitionTwice(e, opts) ==
    IF opts.useCore2000
    THEN <<RecognitionCard(e, opts), RecognitionCard(e, opts)>>
    ELSE <<RecognitionCard(e, opts)>>

assemble(e, opts) ==
    IF opts.useCore2000
    THEN <<RecognitionCard(e, opts), ProductionCard(e, opts)>>
    ELSE <<RecognitionCard(e, opts)>>

InitAssemble ==
    /\ FrontEndIdle
    /\ SideIdle
    /\ InferIdle /\ EnrichIdle /\ ParseIdle
    /\ options \in AssembleOptionSets
    /\ entry \in AssembleEntries
    /\ cards = NoSequence

Assemble ==
    /\ ~cards.set
    /\ entry.japanese /= ""
    /\ cards' = [set |-> TRUE, value |-> assemble(entry, options)]
    /\ UNCHANGED <<entry, options, frontEndVars, sideVars, inferVars, enrichVars,
                   parseVars>>

NextAssemble == Assemble

SpecAssemble == InitAssemble /\ [][NextAssemble]_vars

\* the arity and the shape of the cards of one entry, but for the fronts'
\* difference
CardsShape ==
    IF options.useCore2000
    THEN /\ Len(cards.value) = 2
         /\ cards.value[1].template = "Recognition"
         /\ cards.value[1].front[1] = Escape(entry.japanese)
         /\ cards.value[2].template = "Production"
         /\ cards.value[2].front = <<Escape(entry.english)>>
         /\ cards.value[1].tags = NormalizeTags(entry.tags)
         /\ cards.value[2].tags = NormalizeTags(entry.tags)
    ELSE Len(cards.value) = 1

-----------------------------------------------------------------------------
(* CsvParser.parse(bytes, declaredFormat?): comma-separated input with      *)
(* quoted fields, or the tab-separated format announced by a directive      *)
(* line.  The input is a sequence of characters; a directive prefix is one  *)
(* element.                                                                 *)

MaxLines == 3

\* lines of input, without their newline
LinePool ==
    {<<"a">>,
     <<"a", ",", "b">>,
     <<"\"", "a", ",", "b", "\"">>,
     <<"a", "\t", "b">>,
     <<"a", ",", "b", "\t", "c">>,
     <<"\"", "a">>,
     <<"b", "\"", ",", "c">>,
     <<"\"", "a", "\"", "\"", "b", "\"", ",", "c">>}

\* what precedes the lines: nothing, the separator directive, or the
\* separator directive and a column list
Preambles ==
    {<< >>,
     <<"#separator:tab", "\n">>,
     <<"#separator:tab", "\n", "#columns:", "a", "\t", "b", "\n">>}

RECURSIVE TextsOfLen(_)
TextsOfLen(n) ==
    IF n = 0 THEN {<< >>}
    ELSE {t \o l \o <<"\n">> : t \in TextsOfLen(n - 1), l \in LinePool}

ByteInputs ==
    {p \o t : p \in Preambles, t \in UNION {TextsOfLen(n) : n \in 1..MaxLines}}

DeclaredFormats == {"none", "comma", "tab"}

DirectivePrefixes == {"#separator:tab", "#columns:"}

\* sniffing the first line for the directive marker
Sniff(b) == IF b /= << >> /\ b[1] = "#separator:tab" THEN "tab" ELSE "comma"

Format(b, declared) == IF declared = "none" THEN Sniff(b) ELSE declared

Separator(fmt) == IF fmt = "tab" THEN "\t" ELSE ","

\* the records of the input from character i on: fields end at sep, records
\* at a newline; with quoting, a field that opens with a double quote runs to
\* its closing quote and "" inside it is one quote
RECURSIVE Scan(_, _, _, _, _, _, _)
Scan(b, i, sep, quoting, inQuote, field, record) ==
    IF i > Len(b)
    THEN IF field = << >> /\ record = << >> /\ ~inQuote
         THEN << >>
         ELSE <<Append(record, field)>>
    ELSE IF inQuote
    THEN IF b[i] = "\""
         THEN IF i < Len(b) /\ b[i + 1] = "\""
              THEN Scan(b, i + 2, sep, quoting, TRUE, Append(field, "\""), record)
              ELSE Scan(b, i + 1, sep, quoting, FALSE, field, record)
         ELSE Scan(b, i + 1, sep, quoting, TRUE, Append(field, b[i]), record)
    ELSE IF quoting /\ b[i] = "\"" /\ field = << >>
    THEN Scan(b, i + 1, sep, quoting, TRUE, field, record)
    ELSE IF b[i] = sep
    THEN Scan(b, i + 1, sep, quoting, FALSE, << >>, Append(record, field))
    ELSE IF b[i] = "\n"
    THEN <<Append(record, field)>>
         \o Scan(b, i + 1, sep, quoting, FALSE, << >>, << >>)
    ELSE Scan(b, i + 1, sep, quoting, FALSE, Append(field, b[i]), record)

Records(b, fmt) == Scan(b, 1, Separator(fmt), fmt = "comma", FALSE, << >>, << >>)

IsDirective(record) ==
    record[1] /= << >> /\ record[1][1] \in DirectivePrefixes

\* number of directive lines the tab format starts with
RECURSIVE DirectiveLines(_, _)
DirectiveLines(recs, k) ==
    IF k < Len(recs) /\ IsDirective(recs[k + 1])
    THEN DirectiveLines(recs, k + 1)
    ELSE k

\* the column list a directive declares, << >> when there is none
DeclaredColumns(recs, nd) ==
    LET lists == {k \in 1..nd : recs[k][1][1] = "#columns:"}
    IN IF lists = {} THEN << >>
       ELSE LET r == recs[CHOOSE k \in lists : TRUE]
            IN <<Tail(r[1])>> \o Tail(r)

\* "Column 1", "Column 2", ...
Synthesized(n) == [i \in 1..n |-> <<"Column", i>>]

MalformedInputError ==
    [status |-> "MalformedInputError", headers |-> << >>, rows |-> << >>]

\* where the data rows start and what the headers are
Layout(b, fmt) ==
    LET recs == Records(b, fmt)
        nd == IF fmt = "tab" THEN DirectiveLines(recs, 0) ELSE 1
        cols == IF fmt = "tab" THEN DeclaredColumns(recs, nd) ELSE recs[1]
        data == SubSeq(recs, nd + 1, Len(recs))
    IN [data |-> data,
        headers |-> IF cols /= << >> THEN cols
                    ELSE Synthesized(IF data = << >> THEN 0 ELSE Len(data[1]))]

\* A defect variant: rows of the wrong length are left out of the result.
parse_DropBadRows(b, declared) ==
    LET l == Layout(b, Format(b, declared))
    IN [status |-> "ok", headers |-> l.headers,
        rows |-> SelectSeq(l.data, LAMBDA r : Len(r) = Len(l.headers))]

parse(b, declared) ==
    LET l == Layout(b, Format(b, declared))
    IN IF \E k \in 1..Len(l.data) : Len(l.data[k]) /= Len(l.headers)
       THEN MalformedInputError
       ELSE [status |-> "ok", headers |-> l.headers, rows |-> l.data]

InitParse ==
    /\ FrontEndIdle
    /\ SideIdle
    /\ options = NoOptions
    /\ InferIdle /\ EnrichIdle /\ AssembleIdle
    /\ bytes \in ByteInputs
    /\ declaredFormat \in DeclaredFormats
    /\ parsed = NotParsed

Parse ==
    /\ parsed = NotParsed
    /\ parsed' = parse(bytes, declaredFormat)
    /\ UNCHANGED <<bytes, declaredFormat, options, frontEndVars, sideVars, inferVars,
                   enrichVars, assembleVars>>

NextParse == Parse

SpecParse == InitParse /\ [][NextParse]_vars

\* the header set and the data records of the input just parsed
InputLayout == Layout(bytes, Format(bytes, declaredFormat))

\* some data record has more or fewer fields than there are headers
FieldCountMismatch ==
    \E k \in 1..Len(InputLayout.data) :
        Len(InputLayout.data[k]) /= Len(InputLayout.headers)

-----------------------------------------------------------------------------
(* PackageExporter.export(sequence of Card, deckName, media references):    *)
(* the package, or ExportError.  A card refers to a media file by the       *)
(* [sound:...] marker in its front or back.                                 *)

\* filenames the audio collaborator may have produced
MediaFiles == {"neko.mp3", "neko-desu.mp3"}

\* the card sequences assemble hands to the exporter
ExportInputs == {assemble(e, o) : e \in AssembleEntries, o \in AssembleOptionSets}

\* what the exporter does about a dangling reference
ExportPolicies == {"fail", "omit"}

\* the filenames the markers in a text refer to
MediaRefs(pieces) ==
    {pieces[k + 1] : k \in {i \in 1..(Len(pieces) - 1) : pieces[i] = "[sound:"}}

CardRefs(card) == MediaRefs(card.front) \cup MediaRefs(card.back)

\* the text without the markers of files that were not produced
RECURSIVE OmitDangling(_, _)
OmitDangling(pieces, media) ==
    IF pieces = << >> THEN << >>
    ELSE IF pieces[1] = "[sound:" /\ Len(pieces) >= 3
    THEN (IF pieces[2] \in media THEN SubSeq(pieces, 1, 3) ELSE << >>)
         \o OmitDangling(SubSeq(pieces, 4, Len(pieces)), media)
    ELSE <<pieces[1]>> \o OmitDangling(Tail(pieces), media)

ExportError == [status |-> "ExportError", notes |-> << >>, media |-> {}]

\* A defect variant: the cards are written as they are.
export_EmitDangling(cs, deckName, media, policy) ==
    [status |-> "ok", notes |-> cs,
     media |-> media \cap UNION {CardRefs(cs[k]) : k \in 1..Len(cs)}]

export(cs, deckName, media, policy) ==
    IF policy = "fail" /\ \E k \in 1..Len(cs) : ~(CardRefs(cs[k]) \subseteq media)
    THEN ExportError
    ELSE [status |-> "ok",
          notes |-> [k \in 1..Len(cs) |->
                        [cs[k] EXCEPT !.front = OmitDangling(cs[k].front, media),
                                      !.back = OmitDangling(cs[k].back, media)]],
          media |-> media \cap UNION {CardRefs(cs[k]) : k \in 1..Len(cs)}]

InitExport ==
    /\ FrontEndIdle
    /\ options = NoOptions
    /\ InferIdle /\ EnrichIdle /\ AssembleIdle /\ ParseIdle
    /\ exportCards \in ExportInputs
    /\ produced \in SUBSET MediaFiles
    /\ package = NotExported
    /\ CreateIdle
    /\ ApplyIdle
    /\ LookupIdle
    /\ PagesIdle

Export(policy) ==
    /\ package = NotExported
    /\ package' = export(exportCards, "Japanese Vocabulary Deck", produced, policy)
    /\ UNCHANGED <<exportCards, produced, frontEndVars, pipelineVars, createVars,
                   applyVars, lookupVars, pageVars>>

\* the export that fails on a dangling reference
ExportOrFail == Export("fail")

\* the export that leaves a dangling reference out
ExportOmitting == Export("omit")

NextExport == ExportOrFail \/ ExportOmitting

SpecExport == InitExport /\ [][NextExport]_vars

\* C11: a package that export produced has no card referring to a media
\* file outside the media actually produced; an export with a dangling
\* reference fails with ExportError or leaves the reference out.
C11_NoDanglingMedia ==
    /\ package.status \in {"none", "ok", "ExportError"}
    /\ package.status = "ok" =>
          \A k \in 1..Len(package.notes) :
              /\ CardRefs(package.notes[k]) \subseteq produced
              /\ CardRefs(package.notes[k]) \subseteq package.media

\* a package was produced from cards one of which had a dangling reference
C11_Witness ==
    /\ package.status = "ok"
    /\ Len(package.notes) = 2
    /\ \E k \in 1..Len(exportCards) :
          /\ ~(CardRefs(exportCards[k]) \subseteq produced)
          /\ CardRefs(exportCards[k]) \cap produced /= {}

-----------------------------------------------------------------------------
(* Deck creation: AnkiControls.handleCreateDeck -> AppContent.handleCreateDeck *)
(* -> services/api createDeck, with the simulated progress the call reports  *)
(* through its onProgress callback while the request is in flight.          *)

MaxAttempts == 1

\* requestAnimationFrame callbacks that can be waiting for one frame
MaxPendingFrames == 1

\* row_count of the uploaded file, as the session-details request answers it
RowCounts == {1, 22}

\* the switch positions of AnkiControls when the deck is generated
CreateOptionSets ==
    {Flags(TRUE, TRUE, TRUE, TRUE), Flags(FALSE, TRUE, TRUE, FALSE),
     Flags(TRUE, FALSE, FALSE, TRUE), Flags(FALSE, FALSE, FALSE, FALSE)}

\* SessionContext after no deck and after an earlier deck
PriorDecks ==
    {[deckId |-> 0, cardCount |-> 0, isEnriched |-> FALSE],
     [deckId |-> 1, cardCount |-> 3, isEnriched |-> TRUE]}

\* sessionStorage 'csvFieldMapping' when the page is opened
SavedMappings == {NoItem, Item(ScenarioMapping)}

\* what the page is opened with: nothing uploaded, a first visit with a
\* session, and a return to the page after a mapping and a deck were made
Arrivals ==
    {[sessionId |-> 0, saved |-> NoItem, deck |-> 0],
     [sessionId |-> 1, saved |-> NoItem, deck |-> 0],
     [sessionId |-> 1, saved |-> Item(ScenarioMapping), deck |-> 1]}

\* response.data of POST /deck/create; card_count 0 and an unset enriched
\* are the falsy and undefined values the handler tests for
CreateResponses ==
    {[ok |-> TRUE, deck_id |-> 2, card_count |-> 5,
      enriched |-> [set |-> TRUE, value |-> FALSE]],
     [ok |-> TRUE, deck_id |-> 2, card_count |-> 0,
      enriched |-> [set |-> FALSE, value |-> FALSE]]}

\* a rejected POST /deck/create
CreateFailure ==
    [ok |-> FALSE, deck_id |-> 0, card_count |-> 0,
     enriched |-> [set |-> FALSE, value |-> FALSE]]

Min(a, b) == IF a < b THEN a ELSE b

Max(a, b) == IF a > b THEN a ELSE b

\* Boolean.toString()
BoolString(b) == IF b THEN "true" ELSE "false"

\* the option fields createDeck appends to the form
FormFlags(o) ==
    <<<<"enrich_cards", BoolString(o.enrichCards)>>,
      <<"include_audio", BoolString(o.includeAudio)>>,
      <<"include_examples", BoolString(o.includeExamples)>>,
      <<"include_example_audio", BoolString(o.includeExampleAudio)>>,
      <<"use_core2000", BoolString(o.useCore2000)>>>>

\* progressUpdateCount for a word count
ProgressUpdateCount(totalWords) == Min(100, Max(20, totalWords))

Update(lo, hi, total, text, n) ==
    [processed |-> [lo |-> lo, hi |-> hi], total |-> total,
     status |-> [text |-> text, n |-> n]]

\* currentPhase for progressPercent = step / count
Phase(step, count, o) ==
    IF 10 * step < count THEN "preparing"
    ELSE IF 10 * step < 7 * count
         THEN (IF o.enrichCards THEN "enriching" ELSE "processing")
    ELSE IF 10 * step < 9 * count
         THEN (IF o.includeAudio \/ o.includeExampleAudio
               THEN "audio" ELSE "packaging")
    ELSE "packaging"

\* the status text of a phase; n is the enrichedCount of 'Enriching word n of ..'
PhaseStatus(phase, step, count, totalWords, o) ==
    CASE phase = "preparing" ->
             [text |-> "Preparing vocabulary data...", n |-> 0]
      [] phase = "enriching" ->
             [text |-> "Enriching word", n |-> (step * totalWords) \div count]
      [] phase = "audio" ->
             [text |-> IF o.includeExampleAudio
                       THEN "Generating vocabulary and example audio..."
                       ELSE "Generating vocabulary audio...", n |-> 0]
      [] phase = "packaging" -> [text |-> "Packaging Anki deck...", n |-> 0]
      [] OTHER -> [text |-> "Processing deck...", n |-> 0]

\* the update one tick of a call's interval schedules: the first callback
\* takes progressPercent before it advances currentStep, the later ones
\* after.  processedWords is Math.min(totalWords - 1, Math.max(1, ..)) of a
\* value between 0 and totalWords
TickUpdate(call, o) ==
    LET step == IF call.timer = "outer" THEN call.currentStep
                ELSE call.currentStep + 1
        count == call.progressUpdateCount
        total == call.totalWords
    IN  [processed |-> [lo |-> Min(total - 1, 1), hi |-> total - 1],
         total |-> total,
         status |-> PhaseStatus(Phase(step, count, o), step, count, total, o)]

Completion(total) == Update(total, total, total, "Deck created successfully!", 0)

\* SessionContext after AppContent.handleCreateDeck went wrong: the catch
\* block clears what the attempt might have left half set
AfterCreate_ResetOnError(ctx, data) ==
    IF data.ok
    THEN [deckId |-> data.deck_id,
          cardCount |-> IF data.card_count /= 0 THEN data.card_count
                        ELSE ctx.cardCount,
          isEnriched |-> IF data.enriched.set THEN data.enriched.value
                         ELSE ctx.isEnriched]
    ELSE [deckId |-> 0, cardCount |-> 0, isEnriched |-> FALSE]

\* SessionContext after AppContent.handleCreateDeck awaited createDeck
AfterCreate(ctx, data) ==
    IF data.ok
    THEN [deckId |-> data.deck_id,
          cardCount |-> IF data.card_count /= 0 THEN data.card_count
                        ELSE ctx.cardCount,
          isEnriched |-> IF data.enriched.set THEN data.enriched.value
                         ELSE ctx.isEnriched]
    ELSE ctx

Context == [deckId |-> deckId, cardCount |-> cardCount, isEnriched |-> isEnriched]

InitCreate ==
    /\ route = "/controls"
    /\ \E a \in Arrivals, d \in PriorDecks :
        /\ sessionId = a.sessionId
        /\ csvFieldMapping = a.saved
        /\ savedFor = (IF a.saved.set THEN a.sessionId ELSE 0)
        /\ afterCancel = "none"
        /\ a.saved \in SavedMappings
        /\ d.deckId = a.deck
        /\ deckId = d.deckId
        /\ cardCount = d.cardCount
        /\ isEnriched = d.isEnriched
    /\ uploads = sessionId
    /\ navTimer = FALSE
    /\ variant = 1
    /\ mstate = "unmounted"
    /\ completeTimer = NoItem
    /\ edits = 0
    /\ deckRequest = NoRequest
    /\ headers = << >>
    /\ suggestedMapping = << >>
    /\ currentMapping = << >>
    /\ validationErrors = EmptyErrors
    /\ lastResult = NoResult
    /\ vcalls = 0
    /\ vfirst = NoResult
    /\ options \in CreateOptionSets
    /\ InferIdle /\ EnrichIdle /\ AssembleIdle /\ ParseIdle
    /\ ExportIdle
    /\ ApplyIdle
    /\ LookupIdle
    /\ PagesIdle
    /\ createPc = "idle"
    /\ attempts = 0
    /\ formFlags = << >>
    /\ calls = << >>
    /\ pendingFrames = << >>
    /\ finalTimers = << >>
    /\ lastUpdate = NoUpdate
    /\ sawSuccess = FALSE
    /\ createOutcome = "none"
    /\ sessionRows \in RowCounts
    /\ deckCreated = FALSE
    /\ createToast = "none"

\* what no step of a deck creation touches
besideCreate ==
    <<uploads, navTimer, variant, mstate, completeTimer, edits, mapperVars,
      validateVars, pipelineVars, exportVars, sessionRows, applyVars,
      lookupVars, pageVars>>

\* Generate with a session: the first onProgress call, then the session
\* details are requested
StartCreate ==
    /\ route = "/controls"
    /\ createPc = "idle"
    /\ attempts < MaxAttempts
    /\ sessionId /= 0
    /\ attempts' = attempts + 1
    /\ createPc' = "details"
    /\ calls' = Append(calls, [timer |-> "off", currentStep |-> 0,
                               totalWords |-> 0, progressUpdateCount |-> 20])
    /\ lastUpdate' = Update(0, 0, 100, "Preparing vocabulary data...", 0)
    /\ sawSuccess' = FALSE
    /\ deckCreated' = FALSE
    /\ UNCHANGED <<route, sessionId, csvFieldMapping, savedFor, afterCancel, deckRequest, deckId,
                   cardCount, isEnriched, formFlags, pendingFrames, finalTimers,
                   createOutcome, createToast, besideCreate>>

\* Generate without a session: AppContent.handleCreateDeck toasts, calls
\* navigate('/') and returns; AnkiControls.handleCreateDeck, whose await
\* ended without an exception, goes on to setDeckCreated(true) and its toast
StartCreateNoSession ==
    /\ route = "/controls"
    /\ createPc = "idle"
    /\ attempts < MaxAttempts
    /\ sessionId = 0
    /\ attempts' = attempts + 1
    /\ route' = "/"
    /\ createOutcome' = "no session"
    /\ deckCreated' = TRUE
    /\ createToast' = "Deck created successfully!"
    /\ UNCHANGED <<sessionId, csvFieldMapping, savedFor, afterCancel, deckRequest, deckId, cardCount,
                   isEnriched, createPc, formFlags, calls, pendingFrames,
                   finalTimers, lastUpdate, sawSuccess, besideCreate>>

\* the session details answer: the second onProgress call, the progress
\* interval is started and the create request posted
SessionDetails ==
    /\ createPc = "details"
    /\ LET rows == sessionRows IN
        /\ calls' = [calls EXCEPT ![Len(calls)] =
                        [timer |-> "outer", currentStep |-> 0,
                         totalWords |-> rows,
                         progressUpdateCount |-> ProgressUpdateCount(rows)]]
        /\ lastUpdate' = Update(1, 1, rows, "Preparing vocabulary data...", 0)
    /\ deckRequest' =
           [sent |-> TRUE, session_id |-> sessionId,
            field_mapping |-> FormFieldMapping(csvFieldMapping, csvFieldMapping)]
    /\ formFlags' = FormFlags(options)
    /\ createPc' = "requesting"
    /\ UNCHANGED <<route, sessionId, csvFieldMapping, savedFor, afterCancel, deckId, cardCount,
                   isEnriched, attempts, pendingFrames, finalTimers, sawSuccess,
                   createOutcome, deckCreated, createToast, besideCreate>>

\* a progress interval fires: it advances currentStep and hands the update
\* to requestAnimationFrame
TimerTick ==
    /\ Len(pendingFrames) < MaxPendingFrames
    /\ \E a \in DOMAIN calls :
        /\ calls[a].timer /= "off"
        /\ calls[a].currentStep < calls[a].progressUpdateCount
        /\ calls' = [calls EXCEPT ![a].currentStep = @ + 1,
                                  ![a].timer = "inner"]
        /\ pendingFrames' = Append(pendingFrames, TickUpdate(calls[a], options))
    /\ UNCHANGED <<route, sessionId, csvFieldMapping, savedFor, afterCancel, deckRequest, deckId,
                   cardCount, isEnriched, createPc, attempts, formFlags,
                   finalTimers, lastUpdate, sawSuccess, createOutcome,
                   deckCreated, createToast, besideCreate>>

\* an animation frame: every waiting callback calls onProgress
AnimationFrame ==
    /\ pendingFrames /= << >>
    /\ lastUpdate' = pendingFrames[Len(pendingFrames)]
    /\ pendingFrames' = << >>
    /\ deckCreated' =
           (deckCreated \/ \E i \in DOMAIN pendingFrames :
                pendingFrames[i].status.text = "Deck created successfully!")
    /\ UNCHANGED <<route, sessionId, csvFieldMapping, savedFor, afterCancel, deckRequest, deckId,
                   cardCount, isEnriched, createPc, attempts, formFlags, calls,
                   finalTimers, sawSuccess, createOutcome, createToast,
                   besideCreate>>

\* POST /deck/create answers: the interval is cleared, completion is shown
\* at once or after 'Finalizing deck...', AppContent.handleCreateDeck stores
\* the deck and AnkiControls.handleCreateDeck reports it
ResponseOk ==
    /\ createPc = "requesting"
    /\ \E data \in CreateResponses :
        LET call == calls[Len(calls)]
            ctx == AfterCreate(Context, data)
        IN  /\ calls' = [calls EXCEPT ![Len(calls)].timer = "off"]
            /\ IF call.currentStep < call.progressUpdateCount - 1
               THEN /\ lastUpdate' =
                           Update(Max(1, call.totalWords - 5),
                                  Max(1, call.totalWords - 5),
                                  call.totalWords, "Finalizing deck...", 0)
                    /\ finalTimers' =
                           Append(finalTimers,
                                  [call |-> Len(calls),
                                   update |-> Completion(call.totalWords)])
                    /\ sawSuccess' = FALSE
               ELSE /\ lastUpdate' = Completion(call.totalWords)
                    /\ finalTimers' = finalTimers
                    /\ sawSuccess' = TRUE
            /\ deckId' = ctx.deckId
            /\ cardCount' = ctx.cardCount
            /\ isEnriched' = ctx.isEnriched
    /\ createPc' = "idle"
    /\ createOutcome' = "created"
    /\ deckCreated' = TRUE
    /\ createToast' = "Deck created successfully!"
    /\ UNCHANGED <<route, sessionId, csvFieldMapping, savedFor, afterCancel, deckRequest, attempts,
                   formFlags, pendingFrames, besideCreate>>

\* POST /deck/create is rejected: createDeck rethrows, handleCreateDeck
\* toasts and rethrows, AnkiControls toasts
ResponseError ==
    /\ createPc = "requesting"
    /\ LET ctx == AfterCreate(Context, CreateFailure)
       IN  /\ deckId' = ctx.deckId
           /\ cardCount' = ctx.cardCount
           /\ isEnriched' = ctx.isEnriched
    /\ createPc' = "idle"
    /\ createOutcome' = "error"
    /\ createToast' = "Failed to create deck"
    /\ UNCHANGED <<route, sessionId, csvFieldMapping, savedFor, afterCancel, deckRequest, attempts,
                   formFlags, calls, pendingFrames, finalTimers, lastUpdate,
                   sawSuccess, deckCreated, besideCreate>>

\* the 500 ms timeout after 'Finalizing deck...' fires: the completion
\* update reaches trackProgress, which marks the deck as created
FinalTimerFires ==
    /\ finalTimers /= << >>
    /\ lastUpdate' = Head(finalTimers).update
    /\ sawSuccess' = (sawSuccess \/ (Head(finalTimers).call = Len(calls)
                                      /\ createPc = "idle"))
    /\ finalTimers' = Tail(finalTimers)
    /\ deckCreated' = TRUE
    /\ UNCHANGED <<route, sessionId, csvFieldMapping, savedFor, afterCancel, deckRequest, deckId,
                   cardCount, isEnriched, createPc, attempts, formFlags, calls,
                   pendingFrames, createOutcome, createToast, besideCreate>>

NextCreate ==
    \/ StartCreate
    \/ StartCreateNoSession
    \/ SessionDetails
    \/ TimerTick
    \/ AnimationFrame
    \/ ResponseOk
    \/ ResponseError
    \/ FinalTimerFires

SpecCreate == InitCreate /\ [][NextCreate]_vars

\* C12: a create-deck attempt that fails, for want of a session or because
\* the request is rejected, leaves the session id, the deck id, the card
\* count, the enriched flag and the stored field mapping as they were.
C12_FailedCreateKeepsState ==
    [][((createPc = "requesting" /\ createOutcome' = "error" /\ createPc' = "idle")
        \/ (attempts' /= attempts /\ createOutcome' = "no session"))
       => <<sessionId, deckId, cardCount, isEnriched, csvFieldMapping>>' =
          <<sessionId, deckId, cardCount, isEnriched, csvFieldMapping>>]_vars

\* a rejected request after an earlier deck, with a mapping stored
C12_Witness ==
    /\ createOutcome = "error"
    /\ createPc = "idle"
    /\ deckId /= 0
    /\ csvFieldMapping.set

\* the option records that differ from o in one dependent flag whose
\* governing flag is off
Twins(o) ==
    {t \in {[o EXCEPT !.includeAudio = ~o.includeAudio],
            [o EXCEPT !.includeExampleAudio = ~o.includeExampleAudio]} :
        \/ (t.includeAudio /= o.includeAudio /\ ~o.enrichCards)
        \/ (t.includeExampleAudio /= o.includeExampleAudio /\ ~o.includeExamples)}

\* C15: with the governing flag off, a run sends the request fields and
\* schedules the progress statuses that the run differing only in the
\* dependent flag would.
C15_DependentFlagInert ==
    [][\A t \in Twins(options) :
          /\ (formFlags' /= formFlags => formFlags' = FormFlags(t))
          /\ \A a \in DOMAIN calls :
                (calls'[a].currentStep /= calls[a].currentStep) =>
                    pendingFrames'[Len(pendingFrames')].status =
                        TickUpdate(calls[a], t).status]_vars

\* C20: once the completion update of a successful call was delivered, it
\* stays the last update the callback received.
C20_CompletionIsLast ==
    sawSuccess =>
        /\ lastUpdate.status.text = "Deck created successfully!"
        /\ lastUpdate.processed.lo = lastUpdate.total
        /\ lastUpdate.processed.hi = lastUpdate.total

\* C23: AnkiControls turns deckCreated on, or raises its 'Deck created
\* successfully!' toast, only in the step in which a create-deck request
\* is answered successfully or in which the completion update of such a
\* request is delivered; never when the handler returned for want of a
\* session.
C23_CreatedOnlyAfterSuccess ==
    [][((deckCreated' /\ ~deckCreated)
        \/ (createToast' = "Deck created successfully!" /\ createToast' /= createToast))
       => \/ (createPc = "requesting" /\ createOutcome' = "created")
          \/ (finalTimers /= << >> /\ finalTimers' = Tail(finalTimers))]_vars

\* C26: once the create-deck request of a call was rejected, and while no
\* new call is started, the progress interval of that call fires no more:
\* its step counter stands still.
C26_TimerStoppedOnFailure ==
    [][(createOutcome = "error" /\ createPc = "idle" /\ createPc' = "idle")
       => calls'[Len(calls)].currentStep = calls[Len(calls)].currentStep]_vars

-----------------------------------------------------------------------------
(* handleApplyMapping of the first FieldMapperComponent, request by request: *)
(* client validation, POST /mapping/validate through validateFieldMapping,  *)
(* POST /mapping/apply through applyFieldMapping, save, onMappingComplete.   *)

\* how POST /mapping/validate can end: the server answers valid, answers
\* invalid with errors, or the request fails
ValidateOutcomes ==
    {[kind |-> "valid", errors |-> EmptyErrors], [kind |-> "failed", errors |-> EmptyErrors]}
    \cup {[kind |-> "invalid", errors |-> e] : e \in ServerErrorSets}

\* services/api validateFieldMapping: response.data, or the default error
\* response when the request fails
validateFieldMapping(outcome) ==
    CASE outcome.kind = "valid" -> [valid |-> TRUE, errors |-> EmptyErrors]
      [] outcome.kind = "invalid" -> [valid |-> FALSE, errors |-> outcome.errors]
      [] OTHER ->
           [valid |-> FALSE,
            errors |-> [k \in {"_general"} |->
                           "Failed to validate field mapping with server"]]

\* the mapping page with the analysis done and the mapping being edited
InitApply ==
    /\ route = "/mapping"
    /\ sessionId = 1
    /\ uploads = 1
    /\ navTimer = FALSE
    /\ csvFieldMapping = NoItem
    /\ savedFor = 0
    /\ afterCancel = "none"
    /\ variant = 1
    /\ mstate = "ready"
    /\ completeTimer = NoItem
    /\ edits = 0
    /\ deckRequest = NoRequest
    /\ headers \in HeaderSets
    /\ suggestedMapping = << >>
    /\ currentMapping \in BoundedMappings
    /\ validationErrors = validateMapping(currentMapping).errors
    /\ lastResult = NoResult
    /\ vcalls = 0
    /\ vfirst = NoResult
    /\ options = NoOptions
    /\ InferIdle /\ EnrichIdle /\ AssembleIdle /\ ParseIdle
    /\ ExportIdle
    /\ CreateIdle
    /\ ApplyIdle
    /\ LookupIdle
    /\ PagesIdle

\* what no step of handleApplyMapping touches
besideApply ==
    <<sessionId, uploads, navTimer, variant, completeTimer, edits, deckRequest,
      validateVars, pipelineVars, exportVars, createVars, lookupVars,
      pageVars>>

\* the button is pressed: client-side validation, then the validation request
ApplyPressed ==
    /\ applyPc = "idle"
    /\ ApplyEnabled
    /\ LET r == validateMapping(currentMapping) IN
        /\ validationErrors' = r.errors
        /\ applyPc' = IF r.valid THEN "validating" ELSE "idle"
    /\ validateOutcome' = "none"
    /\ UNCHANGED <<route, mstate, csvFieldMapping, savedFor, afterCancel, headers,
                   suggestedMapping, currentMapping, appliedMapping, besideApply>>

\* the validation request ends: an invalid result shows the errors and
\* returns, a valid one sends the apply request
ValidateAnswers ==
    /\ applyPc = "validating"
    /\ \E outcome \in ValidateOutcomes :
        LET validationResult == validateFieldMapping(outcome) IN
        /\ validateOutcome' = outcome.kind
        /\ IF ~validationResult.valid
           THEN /\ validationErrors' = validationResult.errors
                /\ applyPc' = "idle"
           ELSE /\ validationErrors' = validationErrors
                /\ applyPc' = "applying"
    /\ UNCHANGED <<route, mstate, csvFieldMapping, savedFor, afterCancel, headers,
                   suggestedMapping, currentMapping, appliedMapping, besideApply>>

\* the apply request succeeds: save and onMappingComplete
ApplySucceeds ==
    /\ applyPc = "applying"
    /\ appliedMapping' = Item(currentMapping)
    /\ HandleMappingComplete(currentMapping)
    /\ applyPc' = "idle"
    /\ UNCHANGED <<validateOutcome, besideApply>>

\* the apply request fails: applyFieldMapping rethrows, 'Mapping failed'
ApplyFails ==
    /\ applyPc = "applying"
    /\ applyPc' = "idle"
    /\ UNCHANGED <<route, mstate, csvFieldMapping, savedFor, afterCancel,
                   mapperVars, validateOutcome, appliedMapping, besideApply>>

NextApply ==
    \/ ApplyPressed
    \/ ValidateAnswers
    \/ ApplySucceeds
    \/ ApplyFails

SpecApply == InitApply /\ [][NextApply]_vars

\* C19: when the validation request of handleApplyMapping fails, the handler
\* goes on to the apply request for the mapping that passed client-side
\* validation instead of returning.
C19_FailedValidationStillApplies ==
    [][(applyPc = "validating" /\ validateOutcome' = "failed")
       => applyPc' = "applying"]_vars

-----------------------------------------------------------------------------
(* JapaneseWordLookup: look a word up, choose among its senses, add it to   *)
(* the word collection or remove it again.  The collection itself is kept   *)
(* by the server, keyed by collection id and by word text.                  *)

Sense(meanings, partsOfSpeech) ==
    [meanings |-> meanings, parts_of_speech |-> partsOfSpeech]

\* what POST /enrich/lookup answers: a word with one sense, one with two
\* senses, and one without a senses structure
LookupAnswer(w) ==
    CASE w = "neko" ->
           [word |-> w, meanings |-> <<"cat">>, parts_of_speech |-> <<"noun">>,
            senses |-> <<Sense(<<"cat">>, <<"noun">>)>>]
      [] w = "kakeru" ->
           [word |-> w, meanings |-> <<"to hang", "to run">>,
            parts_of_speech |-> <<"transitive verb", "intransitive verb">>,
            senses |-> <<Sense(<<"to hang">>, <<"transitive verb">>),
                         Sense(<<"to run">>, <<"intransitive verb">>)>>]
      [] OTHER ->
           [word |-> w, meanings |-> <<"umbrella">>, parts_of_speech |-> <<"noun">>,
            senses |-> << >>]

\* the sense ids the page offers as checkboxes: every sense of a result
\* with more than one, by index from 0
Offered(data) ==
    IF Len(data.senses) > 1 THEN 0..(Len(data.senses) - 1) ELSE {}

\* handleLookup with every sense of the result checked from the start
DefaultSelection_All(data) ==
    [i \in 1..Len(data.senses) |-> i - 1]

\* handleLookup: the selection after a lookup answered
DefaultSelection(data) ==
    IF Len(data.senses) > 0 THEN <<0>> ELSE << >>

\* CheckboxGroup onChange: a checked value is appended, an unchecked one
\* filtered out
Toggle(ids, id) ==
    IF \E i \in DOMAIN ids : ids[i] = id
    THEN SelectSeq(ids, LAMBDA x : x /= id)
    ELSE Append(ids, id)

\* handleAddToCollection: meanings and parts of speech of the selected
\* senses, in selection order
RECURSIVE Gather(_, _)
Gather(senses, ids) ==
    IF ids = << >> THEN Sense(<< >>, << >>)
    ELSE LET rest == Gather(senses, Tail(ids))
             k == Head(ids) + 1
         IN  IF k \in DOMAIN senses
             THEN Sense(senses[k].meanings \o rest.meanings,
                        senses[k].parts_of_speech \o rest.parts_of_speech)
             ELSE rest

\* the add-word request handleAddToCollection sends through
\* addWordToCollection
AddRequest(data, ids, cid, userChose) ==
    LET chosen == IF Len(data.senses) > 0 /\ Len(ids) > 0
                  THEN Gather(data.senses, ids)
                  ELSE Sense(data.meanings, data.parts_of_speech)
    IN  [sent |-> TRUE, word |-> data.word, meanings |-> chosen.meanings,
         parts_of_speech |-> chosen.parts_of_speech,
         selected_sense_ids |->
             IF Len(ids) > 0 THEN [set |-> TRUE, value |-> ids]
             ELSE [set |-> FALSE, value |-> << >>],
         collection_id |-> cid, of |-> data, touched |-> userChose]

\* the entry the server keeps for a request
EntryOf(req) ==
    [word |-> req.word, meanings |-> req.meanings,
     parts_of_speech |-> req.parts_of_speech]

\* a collection that keeps every added entry, duplicates included
Upsert_Append(es, e) == Append(es, e)

\* the collection after an add: keyed by word text, the last write wins
Upsert(es, e) ==
    IF \E i \in DOMAIN es : es[i].word = e.word
    THEN [i \in DOMAIN es |-> IF es[i].word = e.word THEN e ELSE es[i]]
    ELSE Append(es, e)

\* POST /enrich/collection/add-word: without a collection id a collection
\* is created, with one the word is put into that collection
AddWord(st, req) ==
    IF req.collection_id = 0
    THEN [store |-> Append(st, <<EntryOf(req)>>), collection_id |-> Len(st) + 1,
          word_count |-> 1]
    ELSE LET es == Upsert(st[req.collection_id], EntryOf(req))
         IN  [store |-> [st EXCEPT ![req.collection_id] = es],
              collection_id |-> req.collection_id, word_count |-> Len(es)]

\* DELETE /enrich/collection/{id}/word
RemoveWord(st, cid, w) ==
    [st EXCEPT ![cid] = SelectSeq(@, LAMBDA e : e.word /= w)]

\* the words of a collection
WordsOf(es) == {es[i].word : i \in DOMAIN es}

InitLookup ==
    /\ FrontEndIdle
    /\ options = NoOptions
    /\ InferIdle /\ EnrichIdle /\ AssembleIdle /\ ParseIdle
    /\ ExportIdle
    /\ CreateIdle
    /\ ApplyIdle
    /\ LookupIdle
    /\ PagesIdle

\* what the lookup page does not touch
besideLookup ==
    <<frontEndVars, pipelineVars, exportVars, createVars, applyVars, pageVars>>

\* handleLookup, the lookup answering
HandleLookup ==
    /\ \E w \in LookupWords :
        /\ result' = LookupAnswer(w)
        /\ selectedSenseIds' = DefaultSelection(LookupAnswer(w))
    /\ touched' = FALSE
    /\ UNCHANGED <<addRequest, collectionId, wordCount, store, lastOp,
                   besideLookup>>

\* handleLookup, the lookup failing: the selection was reset, the earlier
\* result stays on display
HandleLookupFails ==
    /\ selectedSenseIds' = << >>
    /\ touched' = FALSE
    /\ UNCHANGED <<result, addRequest, collectionId, wordCount, store, lastOp,
                   besideLookup>>

\* the user checks or unchecks one of the offered senses
ToggleSense ==
    /\ \E id \in Offered(result) :
        selectedSenseIds' = Toggle(selectedSenseIds, id)
    /\ touched' = TRUE
    /\ UNCHANGED <<result, addRequest, collectionId, wordCount, store, lastOp,
                   besideLookup>>

\* handleAddToCollection may go on: a result is shown, and of several
\* senses at least one is checked
AddEnabled ==
    /\ result /= NoLookup
    /\ ~(Len(result.senses) > 1 /\ Len(selectedSenseIds) = 0)

\* handleAddToCollection, the request succeeding
HandleAddToCollection ==
    /\ AddEnabled
    /\ LET req == AddRequest(result, selectedSenseIds, collectionId, touched)
           response == AddWord(store, req)
       IN  /\ addRequest' = req
           /\ store' = response.store
           /\ collectionId' = IF collectionId = 0 THEN response.collection_id
                              ELSE collectionId
           /\ wordCount' = response.word_count
           /\ lastOp' = [lastOp EXCEPT ![req.word] =
                            [kind |-> "add", meanings |-> req.meanings,
                             parts_of_speech |-> req.parts_of_speech]]
    /\ UNCHANGED <<result, selectedSenseIds, touched, besideLookup>>

\* handleAddToCollection with several senses and none checked: 'Please
\* select meanings', nothing is sent
HandleAddRefused ==
    /\ result /= NoLookup
    /\ ~AddEnabled
    /\ addRequest' = [NoAddRequest EXCEPT !.word = result.word, !.of = result,
                                          !.touched = touched]
    /\ UNCHANGED <<result, selectedSenseIds, touched, collectionId, wordCount,
                   store, lastOp, besideLookup>>

\* handleAddToCollection, the request failing: 'Error adding word'
HandleAddFails ==
    /\ AddEnabled
    /\ addRequest' = AddRequest(result, selectedSenseIds, collectionId, touched)
    /\ UNCHANGED <<result, selectedSenseIds, touched, collectionId, wordCount,
                   store, lastOp, besideLookup>>

\* handleRemoveFromCollection for a word listed in the collection preview,
\* then the refresh through getCollection
HandleRemoveFromCollection ==
    /\ collectionId /= 0
    /\ \E w \in WordsOf(store[collectionId]) :
        LET st == RemoveWord(store, collectionId, w) IN
        /\ store' = st
        /\ wordCount' = Len(st[collectionId])
        /\ lastOp' = [lastOp EXCEPT ![w] =
                         [kind |-> "remove", meanings |-> << >>,
                          parts_of_speech |-> << >>]]
    /\ UNCHANGED <<result, selectedSenseIds, touched, addRequest, collectionId,
                   besideLookup>>

NextLookup ==
    \/ HandleLookup
    \/ HandleLookupFails
    \/ ToggleSense
    \/ HandleAddToCollection
    \/ HandleAddRefused
    \/ HandleAddFails
    \/ HandleRemoveFromCollection

SpecLookup == InitLookup /\ [][NextLookup]_vars

\* an add attempted on a result with several senses, none of them checked
AddWithoutSelection ==
    /\ addRequest.of /= NoLookup
    /\ Len(addRequest.of.senses) > 1
    /\ ~addRequest.selected_sense_ids.set

\* C14 as stated: an add attempted with no sense selected adds the word
\* with the meanings and parts of speech of the first sense.
C14_NoSelectionAddsFirstSense ==
    AddWithoutSelection =>
        /\ addRequest.sent
        /\ addRequest.meanings = addRequest.of.senses[1].meanings
        /\ addRequest.parts_of_speech = addRequest.of.senses[1].parts_of_speech

\* C14, amended: every sense of a result with more than one sense is offered
\* for selection; an add-word request made for such a result without the
\* user having changed the selection carries the meanings and parts of
\* speech of the first sense only; and an add with no sense checked sends
\* no request.
C14_FirstSenseByDefault ==
    /\ (Len(result.senses) > 1 => Offered(result) = 0..(Len(result.senses) - 1))
    /\ (addRequest.sent /\ Len(addRequest.of.senses) > 1 /\ ~addRequest.touched) =>
          /\ addRequest.meanings = addRequest.of.senses[1].meanings
          /\ addRequest.parts_of_speech = addRequest.of.senses[1].parts_of_speech
    /\ (AddWithoutSelection => ~addRequest.sent)

\* a word with two senses was added without the user choosing
C14_Witness ==
    /\ addRequest.sent
    /\ addRequest.word = "kakeru"
    /\ ~addRequest.touched
    /\ lastOp["kakeru"].kind = "add"

-----------------------------------------------------------------------------
(* Download: AnkiControls.handleDownloadDeck -> AppContent.handleDownloadDeck *)
(* -> services/api downloadDeck, on the controls page after a deck was made. *)

\* Download clicks a behaviour may make
MaxDownloads == 2

\* a deck request as the server saw it; ok is the answer to a HEAD request
DeckRequest(method, deck, ok) == [method |-> method, deck |-> deck, ok |-> ok]

\* the controls page after one create-deck call succeeded and its completion
\* update was delivered
AfterCreated ==
    /\ deckRequest = [sent |-> TRUE, session_id |-> sessionId,
                      field_mapping |-> FormFieldMapping(csvFieldMapping, csvFieldMapping)]
    /\ \E data \in CreateResponses :
        LET ctx == AfterCreate([deckId |-> 0, cardCount |-> 0,
                                isEnriched |-> FALSE], data)
        IN  /\ deckId = ctx.deckId
            /\ cardCount = ctx.cardCount
            /\ isEnriched = ctx.isEnriched
    /\ createPc = "idle"
    /\ attempts = 1
    /\ formFlags = FormFlags(options)
    /\ sessionRows \in RowCounts
    /\ calls = <<[timer |-> "off", currentStep |-> 0, totalWords |-> sessionRows,
                  progressUpdateCount |-> ProgressUpdateCount(sessionRows)]>>
    /\ pendingFrames = << >>
    /\ finalTimers = << >>
    /\ lastUpdate = Completion(sessionRows)
    /\ sawSuccess = TRUE
    /\ createOutcome = "created"
    /\ deckCreated = TRUE
    /\ createToast = "Deck created successfully!"

InitDownload ==
    /\ route = "/controls"
    /\ sessionId = 1
    /\ uploads = 1
    /\ navTimer = FALSE
    /\ csvFieldMapping = NoItem
    /\ savedFor = 0
    /\ afterCancel = "none"
    /\ variant = 1
    /\ mstate = "unmounted"
    /\ completeTimer = NoItem
    /\ edits = 0
    /\ headers = << >>
    /\ suggestedMapping = << >>
    /\ currentMapping = << >>
    /\ validationErrors = EmptyErrors
    /\ lastResult = NoResult
    /\ vcalls = 0
    /\ vfirst = NoResult
    /\ options \in CreateOptionSets
    /\ InferIdle /\ EnrichIdle /\ AssembleIdle /\ ParseIdle
    /\ ExportIdle
    /\ ApplyIdle
    /\ LookupIdle
    /\ BackgroundIdle
    /\ PreviewIdle
    /\ AfterCreated
    /\ DownloadIdle

\* what no step of a download touches
besideDownload ==
    <<frontEndVars, pipelineVars, exportVars, createVars, applyVars, lookupVars,
      backgroundVars, previewVars, downloads>>

\* the Download Deck button: isDisabled={!deckCreated || isCreating}, and
\* isLoading={isDownloading}
DownloadEnabled ==
    /\ route = "/controls"
    /\ deckCreated
    /\ createPc = "idle"
    /\ ~isDownloading

\* A defect variant: the download goes ahead whatever the check answered.
AfterCheck_Unchecked(ok, deck, log) ==
    [pc |-> "downloading",
     log |-> log \o <<DeckRequest("HEAD", deck, ok), DeckRequest("GET", deck, TRUE)>>,
     toast |-> "Preparing download",
     outcome |-> "none"]

\* AppContent.handleDownloadDeck once the HEAD request is settled: with
\* checkResponse.ok it goes on to downloadDeck(deckId), otherwise (a status
\* that is not ok, or the fetch rejecting) it toasts and returns
AfterCheck(ok, deck, log) ==
    IF ok
    THEN [pc |-> "downloading",
          log |-> log \o <<DeckRequest("HEAD", deck, ok), DeckRequest("GET", deck, TRUE)>>,
          toast |-> "Preparing download",
          outcome |-> "none"]
    ELSE [pc |-> "returned",
          log |-> Append(log, DeckRequest("HEAD", deck, ok)),
          toast |-> "Download error",
          outcome |-> "check failed"]

\* the button is pressed: AnkiControls toasts and calls onDownloadDeck, which
\* returns at once without a deck id and otherwise toasts and waits 800 ms
HandleDownloadDeck ==
    /\ DownloadEnabled
    /\ dlPc = "idle"
    /\ downloads < MaxDownloads
    /\ downloads' = downloads + 1
    /\ isDownloading' = TRUE
    /\ dlToast' = "Download starting..."
    /\ dlDeck' = deckId
    /\ IF deckId = 0
       THEN /\ appToast' = "Deck error"
            /\ dlOutcome' = "no deck"
            /\ dlPc' = "returned"
       ELSE /\ appToast' = "Preparing download"
            /\ dlOutcome' = "none"
            /\ dlPc' = "waiting"
    /\ UNCHANGED <<dlRequests, dlTimers, frontEndVars, pipelineVars, exportVars,
                   createVars, applyVars, lookupVars, backgroundVars, previewVars>>

\* the 800 ms delay is over: the HEAD request for the deck is sent
DelayElapses ==
    /\ dlPc = "waiting"
    /\ dlPc' = "checking"
    /\ UNCHANGED <<dlDeck, isDownloading, dlRequests, dlTimers, dlToast, appToast,
                   dlOutcome, besideDownload>>

\* the HEAD request is settled
CheckAnswers(ok) ==
    /\ dlPc = "checking"
    /\ LET r == AfterCheck(ok, dlDeck, dlRequests) IN
        /\ dlPc' = r.pc
        /\ dlRequests' = r.log
        /\ appToast' = r.toast
        /\ dlOutcome' = r.outcome
    /\ UNCHANGED <<dlDeck, isDownloading, dlTimers, dlToast, besideDownload>>

CheckSucceeds == CheckAnswers(TRUE)

CheckFails == CheckAnswers(FALSE)

\* downloadDeck resolves: the 'Download started' toast is put on a timeout
DownloadSucceeds ==
    /\ dlPc = "downloading"
    /\ dlPc' = "returned"
    /\ dlOutcome' = "downloaded"
    /\ dlTimers' = dlTimers \cup {"started"}
    /\ UNCHANGED <<dlDeck, isDownloading, dlRequests, dlToast, appToast,
                   besideDownload>>

\* downloadDeck rejects: the inner catch toasts and the handler returns
DownloadFails ==
    /\ dlPc = "downloading"
    /\ dlPc' = "returned"
    /\ dlOutcome' = "download failed"
    /\ appToast' = "Download failed"
    /\ UNCHANGED <<dlDeck, isDownloading, dlRequests, dlTimers, dlToast,
                   besideDownload>>

\* onDownloadDeck has returned: AnkiControls waits out the minimum duration,
\* puts its success toast on a 500 ms timeout and the isDownloading reset
\* on a 2000 ms timeout
DownloadReturns ==
    /\ dlPc = "returned"
    /\ dlPc' = "idle"
    /\ dlTimers' = dlTimers \cup {"successful", "reset"}
    /\ UNCHANGED <<dlDeck, isDownloading, dlRequests, dlToast, appToast, dlOutcome,
                   besideDownload>>

\* the 1000 ms timeout of AppContent.handleDownloadDeck
StartedTimerFires ==
    /\ "started" \in dlTimers
    /\ dlTimers' = dlTimers \ {"started"}
    /\ appToast' = "Download started"
    /\ UNCHANGED <<dlPc, dlDeck, isDownloading, dlRequests, dlToast, dlOutcome,
                   besideDownload>>

\* the 500 ms timeout of AnkiControls.handleDownloadDeck
SuccessTimerFires ==
    /\ "successful" \in dlTimers
    /\ dlTimers' = dlTimers \ {"successful"}
    /\ dlToast' = "Download successful!"
    /\ UNCHANGED <<dlPc, dlDeck, isDownloading, dlRequests, appToast, dlOutcome,
                   besideDownload>>

\* the 2000 ms timeout of the finally block; the shorter timeouts set
\* before it have fired by then
ResetTimerFires ==
    /\ dlTimers = {"reset"}
    /\ dlTimers' = {}
    /\ isDownloading' = FALSE
    /\ UNCHANGED <<dlPc, dlDeck, dlRequests, dlToast, appToast, dlOutcome,
                   besideDownload>>

NextDownload ==
    \/ HandleDownloadDeck
    \/ DelayElapses
    \/ CheckSucceeds
    \/ CheckFails
    \/ DownloadSucceeds
    \/ DownloadFails
    \/ DownloadReturns
    \/ StartedTimerFires
    \/ SuccessTimerFires
    \/ ResetTimerFires

SpecDownload == InitDownload /\ [][NextDownload]_vars

\* C21: every download request (GET) is for a set deck id and comes right
\* after an existence check (HEAD) for that same deck id that answered ok;
\* after a check that did not, no download request follows.
C21_DownloadOnlyAfterCheck ==
    \A i \in DOMAIN dlRequests :
        dlRequests[i].method = "GET" =>
            /\ dlRequests[i].deck /= 0
            /\ i > 1
            /\ dlRequests[i - 1] = DeckRequest("HEAD", dlRequests[i].deck, TRUE)

\* a failed check that sent nothing more, then a check and its download
C21_Witness ==
    /\ Len(dlRequests) = 3
    /\ dlRequests[1] = DeckRequest("HEAD", deckId, FALSE)
    /\ dlRequests[2] = DeckRequest("HEAD", deckId, TRUE)
    /\ dlRequests[3] = DeckRequest("GET", deckId, TRUE)
    /\ dlOutcome = "downloaded"

\* C24: 'Download successful!' is on display only if the download request
\* of that download succeeded.
C24_SuccessOnlyIfDownloaded ==
    dlToast = "Download successful!" => dlOutcome = "downloaded"

-----------------------------------------------------------------------------
(* The validation effect of FieldMapperComponent with its debounced server  *)
(* validation: every change of currentMapping re-runs the effect, whose     *)
(* cleanup clears the pending timer; a request already sent is not recalled. *)

\* changes of currentMapping a behaviour may make
MaxChanges == 2

\* hasRequiredFields of the first component
hasRequiredFields(mapping) ==
    \A f \in Fields : ankiFields[f].required => Truthy(Lookup(mapping, f))

\* the condition under which the effect schedules validateOnServer;
\* JSON.stringify compares the entries in insertion order
NeedsServerValidation(v, sid, m, suggested) ==
    /\ sid /= 0
    /\ m /= suggested
    /\ IF v = 1
       THEN Len(m) > 0 /\ hasRequiredFields(m)
       ELSE \E i \in 1..Len(m) : Truthy(m[i][2])

\* the effect run for a new currentMapping m
ValidationEffect(m) ==
    /\ debounce' = IF NeedsServerValidation(variant, sessionId, m, suggestedMapping)
                   THEN Item(m) ELSE NoItem
    /\ mergedFor' = {}

\* validateOnServer after the await: the errors of an invalid answer are
\* merged over the displayed ones
MergeAnswer(errs, answer) ==
    IF answer.valid THEN errs ELSE answer.errors @@ errs

InitBackground ==
    /\ route = "/mapping"
    /\ sessionId = 1
    /\ uploads = 1
    /\ navTimer = FALSE
    /\ csvFieldMapping = NoItem
    /\ savedFor = 0
    /\ afterCancel = "none"
    /\ variant \in Variants
    /\ mstate = "ready"
    /\ completeTimer = NoItem
    /\ edits = 0
    /\ deckRequest = NoRequest
    /\ \E a \in AnalysisResults :
        /\ headers = a.headers
        /\ suggestedMapping = a.suggested_mapping
        /\ currentMapping = a.suggested_mapping
        /\ validationErrors = EffectErrors(variant, a.suggested_mapping, EmptyErrors)
    /\ lastResult = NoResult
    /\ vcalls = 0
    /\ vfirst = NoResult
    /\ options = NoOptions
    /\ InferIdle /\ EnrichIdle /\ AssembleIdle /\ ParseIdle
    /\ ExportIdle
    /\ CreateIdle
    /\ ApplyIdle
    /\ LookupIdle
    /\ DownloadIdle
    /\ PreviewIdle
    /\ BackgroundIdle

\* what the validation effect and the handlers that trigger it leave alone
besideBackground ==
    <<flowVars, headers, suggestedMapping, validateVars, pipelineVars, exportVars,
      createVars, applyVars, lookupVars, downloadVars, previewVars>>

\* handleMappingChange and the effect it triggers
EditMapping ==
    /\ mstate = "ready"
    /\ changes < MaxChanges
    /\ \E f \in EditFields, c \in SeqRange(headers) \cup {""} :
        LET m == Put(currentMapping, f, c) IN
        /\ currentMapping' = m
        /\ validationErrors' = validateMapping(m).errors
        /\ ValidationEffect(m)
    /\ changes' = changes + 1
    /\ UNCHANGED <<inflight, besideBackground>>

\* handleResetMapping (confirmed) and the effect it triggers
ResetMapping ==
    /\ mstate = "ready"
    /\ changes < MaxChanges
    /\ Len(currentMapping) > 0
    /\ currentMapping' = << >>
    /\ validationErrors' = EffectErrors(variant, << >>, EmptyErrors)
    /\ ValidationEffect(<< >>)
    /\ changes' = changes + 1
    /\ UNCHANGED <<inflight, besideBackground>>

\* the 500 ms debounce timer fires: validateFieldMapping is called
DebounceFires ==
    /\ debounce.set
    /\ inflight' = Append(inflight, debounce.value)
    /\ debounce' = NoItem
    /\ UNCHANGED <<currentMapping, validationErrors, changes, mergedFor,
                   besideBackground>>

\* a validation request is answered (in any order), or fails, which
\* validateFieldMapping turns into an invalid answer
ValidationAnswers ==
    /\ \E i \in DOMAIN inflight, answer \in ServerValidations :
        /\ validationErrors' = MergeAnswer(validationErrors, answer)
        /\ mergedFor' = IF validationErrors' /= validationErrors
                        THEN mergedFor \cup {inflight[i]} ELSE mergedFor
        /\ inflight' = SubSeq(inflight, 1, i - 1)
                       \o SubSeq(inflight, i + 1, Len(inflight))
    /\ UNCHANGED <<currentMapping, debounce, changes, besideBackground>>

NextBackground ==
    \/ EditMapping
    \/ ResetMapping
    \/ DebounceFires
    \/ ValidationAnswers

SpecBackground == InitBackground /\ [][NextBackground]_vars

\* C22: with no validation timer pending and no validation request
\* unanswered, the displayed errors hold server errors only of answers that
\* were computed for the current mapping.
C22_NoStaleServerErrors ==
    (~debounce.set /\ inflight = << >>) => mergedFor \subseteq {currentMapping}

-----------------------------------------------------------------------------
(* Card preview: AnkiControls.handlePreviewCards and CardPreviewModal.  The  *)
(* state updates a handler makes are rendered together; the modal's [isOpen] *)
(* effect runs after that render and before the next event is handled.      *)

\* preview requests a behaviour may make
MaxPreviews == 2

\* longest sample_cards list a preview answer carries
MaxCards == 3

\* a sample_cards list of n cards
CardList(n) == [i \in 1..n |-> [front |-> i, back |-> i]]

InitPreview ==
    /\ route = "/controls"
    /\ sessionId = 1
    /\ uploads = 1
    /\ navTimer = FALSE
    /\ csvFieldMapping = NoItem
    /\ savedFor = 0
    /\ afterCancel = "none"
    /\ variant = 1
    /\ mstate = "unmounted"
    /\ completeTimer = NoItem
    /\ edits = 0
    /\ deckRequest = NoRequest
    /\ headers = << >>
    /\ suggestedMapping = << >>
    /\ currentMapping = << >>
    /\ validationErrors = EmptyErrors
    /\ lastResult = NoResult
    /\ vcalls = 0
    /\ vfirst = NoResult
    /\ options = NoOptions
    /\ InferIdle /\ EnrichIdle /\ AssembleIdle /\ ParseIdle
    /\ ExportIdle
    /\ CreateIdle
    /\ ApplyIdle
    /\ LookupIdle
    /\ DownloadIdle
    /\ BackgroundIdle
    /\ PreviewIdle

\* what the preview does not touch
besidePreview ==
    <<frontEndVars, pipelineVars, exportVars, createVars, applyVars, lookupVars,
      downloadVars, backgroundVars>>

\* the card display of the modal is rendered: open, not loading, no error,
\* cards present, and the pending effect has run
CardShown ==
    /\ isPreviewOpen
    /\ ~openEffect
    /\ ~isLoadingPreview
    /\ previewError = "none"
    /\ cardSamples /= << >>

\* Preview Sample Cards is pressed on the page (the open modal covers it)
HandlePreviewCards ==
    /\ route = "/controls"
    /\ sessionId /= 0
    /\ createPc = "idle"
    /\ ~isDownloading
    /\ ~isLoadingPreview
    /\ ~isPreviewOpen
    /\ previews < MaxPreviews
    /\ previews' = previews + 1
    /\ isLoadingPreview' = TRUE
    /\ previewError' = "none"
    /\ UNCHANGED <<isPreviewOpen, cardSamples, currentCardIndex, showFront,
                   openEffect, besidePreview>>

\* the preview answers with cards: they replace the list and the modal opens
PreviewLoaded ==
    /\ isLoadingPreview
    /\ \E n \in 1..MaxCards : cardSamples' = CardList(n)
    /\ isPreviewOpen' = TRUE
    /\ openEffect' = (openEffect \/ ~isPreviewOpen)
    /\ isLoadingPreview' = FALSE
    /\ UNCHANGED <<previewError, currentCardIndex, showFront, previews,
                   besidePreview>>

\* the preview answers without cards
PreviewEmpty ==
    /\ isLoadingPreview
    /\ previewError' = "No cards available for preview"
    /\ isLoadingPreview' = FALSE
    /\ UNCHANGED <<isPreviewOpen, cardSamples, currentCardIndex, showFront,
                   openEffect, previews, besidePreview>>

\* the preview request fails
PreviewFails ==
    /\ isLoadingPreview
    /\ previewError' = "Failed to load preview cards"
    /\ isLoadingPreview' = FALSE
    /\ UNCHANGED <<isPreviewOpen, cardSamples, currentCardIndex, showFront,
                   openEffect, previews, besidePreview>>

\* the [isOpen] effect of the modal, run after the render that opened it
OpenEffectRuns ==
    /\ openEffect
    /\ openEffect' = FALSE
    /\ currentCardIndex' = 0
    /\ showFront' = TRUE
    /\ UNCHANGED <<isPreviewOpen, cardSamples, isLoadingPreview, previewError,
                   previews, besidePreview>>

\* handleNextCard
HandleNextCard ==
    /\ CardShown
    /\ currentCardIndex < Len(cardSamples) - 1
    /\ currentCardIndex' = currentCardIndex + 1
    /\ showFront' = TRUE
    /\ UNCHANGED <<isPreviewOpen, cardSamples, isLoadingPreview, previewError,
                   openEffect, previews, besidePreview>>

\* handlePrevCard
HandlePrevCard ==
    /\ CardShown
    /\ currentCardIndex > 0
    /\ currentCardIndex' = currentCardIndex - 1
    /\ showFront' = TRUE
    /\ UNCHANGED <<isPreviewOpen, cardSamples, isLoadingPreview, previewError,
                   openEffect, previews, besidePreview>>

\* flipCard
FlipCard ==
    /\ CardShown
    /\ showFront' = ~showFront
    /\ UNCHANGED <<isPreviewOpen, cardSamples, isLoadingPreview, previewError,
                   currentCardIndex, openEffect, previews, besidePreview>>

\* onClose of the modal
ClosePreview ==
    /\ isPreviewOpen
    /\ ~openEffect
    /\ isPreviewOpen' = FALSE
    /\ UNCHANGED <<cardSamples, isLoadingPreview, previewError, currentCardIndex,
                   showFront, openEffect, previews, besidePreview>>

NextPreview ==
    \/ HandlePreviewCards
    \/ PreviewLoaded
    \/ PreviewEmpty
    \/ PreviewFails
    \/ OpenEffectRuns
    \/ HandleNextCard
    \/ HandlePrevCard
    \/ FlipCard
    \/ ClosePreview

SpecPreview == InitPreview /\ [][NextPreview]_vars

\* C25: whenever the card list is non-empty, the current card index is the
\* (0-based) index of one of its cards.
C25_IndexInRange ==
    cardSamples /= << >> =>
        (0 <= currentCardIndex /\ currentCardIndex < Len(cardSamples))

====
